---------------------------- MODULE Spec2Model ----------------------------
(***************************************************************************)
(* Model of subconvert's conversion engine: the Subversion-dump to Git     *)
(* converter (ConvertRepository in converter.cpp), the object-store        *)
(* facade it drives (Git::Tree, Git::Commit, Git::Branch, Git::Repository  *)
(* in gitutil.cpp and its header) and the convert command of main().       *)
(*                                                                         *)
(* One behaviour of the model follows one dump file through the two        *)
(* invocations `subconvert convert DUMP` (prescan, then apply) and         *)
(* `subconvert --skip convert DUMP` (apply only).  The record `pre` is the *)
(* ConvertRepository of the first invocation, `skp` the one of the second. *)
(*                                                                         *)
(* More parts stand beside it, each with its own next-state relation: the *)
(* reader thread and concurrent_queue of a build with USE_THREADS          *)
(* (SpecPipe), SvnDump::File::read_next and rewind over the tokens of a    *)
(* dump file (SpecReader), the loaders of the branches file and of the     *)
(* modules file (SpecBranches, SpecModules), the converter with            *)
(* submodules (SpecFanout), and the Tree objects of the history branch as  *)
(* objects that share their entries (SpecHeap).                            *)
(*                                                                         *)
(* Conventions.  A pointer that may be null is a sequence of length 0 or   *)
(* 1.  A path is a non-empty sequence of segments.  A written commit is    *)
(* named by its index in the store's list of commits (0 is "no commit").   *)
(***************************************************************************)
EXTENDS Integers, Sequences, FiniteSets, TLC

VARIABLES
  profile,   \* which family of dumps this behaviour draws its nodes from
  opts,      \* command line: [cutoff, start, collect]
  dump,      \* the nodes of the dump file read so far, in file order
  pc,        \* position of main(): "scan", "convert" or "done"
  pos,       \* index in dump of the next node the apply pass reads
  pre,       \* ConvertRepository of the run with the prescan
  skp,       \* ConvertRepository of the run with --skip
  pipe,      \* the two-thread pipeline: concurrent_queue and its two threads
  rd,        \* SvnDump::File: the stream, its position and the fields parsed
  ld,        \* the loaders of the branches file and of the modules file
  heap       \* the Tree objects of a history branch, as objects that share

vars == <<profile, opts, dump, pc, pos, pre, skp, pipe, rd, ld, heap>>

-----------------------------------------------------------------------------
(* Git objects: Blob and Tree.                                             *)

NoEntries == [n \in {} |-> n]

Blob(name, oid) ==
  [type |-> "blob", name |-> name, oid |-> oid, entries |-> NoEntries]

create_tree(name) ==
  [type |-> "tree", name |-> name, oid |-> 0, entries |-> NoEntries]

is_blob(obj) == obj.type = "blob"
is_tree(obj) == obj.type = "tree"

empty(tree) == DOMAIN tree.entries = {}

\* std::map insert-or-assign and erase on a tree's entries.
PutEntry(entries, name, obj) ==
  [n \in (DOMAIN entries) \cup {name} |-> IF n = name THEN obj ELSE entries[n]]

EraseEntry(entries, name) ==
  [n \in (DOMAIN entries) \ {name} |-> entries[n]]

\* Tree::copy (the copy constructor): a new, unwritten tree with the same
\* name and the same entries.  The entries are shared pointers, and a
\* shared subtree is itself copied before it is changed (do_update,
\* do_remove), so that a copy behaves as a value.
copy(tree) ==
  [type |-> "tree", name |-> tree.name, oid |-> 0, entries |-> tree.entries]

\* Variants of copy_to_name that build a new, empty object of the name.
Blob_copy_to_name_Fresh(blob, to_name) == Blob(to_name, 0)

Tree_copy_to_name_Fresh(tree, to_name) == create_tree(to_name)

Blob_copy_to_name(blob, to_name) == [blob EXCEPT !.name = to_name]

Tree_copy_to_name(tree, to_name) == [copy(tree) EXCEPT !.name = to_name]

copy_to_name(obj, to_name) ==
  IF is_blob(obj) THEN Blob_copy_to_name(obj, to_name)
  ELSE Tree_copy_to_name(obj, to_name)

\* A path descends through an entry that is not a tree: the dynamic_cast
\* in do_lookup, do_update and do_remove yields a null pointer, which is
\* then dereferenced.
RECURSIVE CastFails(_, _)
CastFails(tree, path) ==
  /\ Len(path) > 1
  /\ Head(path) \in DOMAIN tree.entries
  /\ \/ is_blob(tree.entries[Head(path)])
     \/ CastFails(tree.entries[Head(path)], Tail(path))

RECURSIVE do_lookup(_, _)
do_lookup(tree, path) ==
  LET name == Head(path) IN
  IF name \notin DOMAIN tree.entries THEN <<>>
  ELSE IF Len(path) = 1 THEN <<tree.entries[name]>>
  ELSE do_lookup(tree.entries[name], Tail(path))

lookup(tree, pathname) == do_lookup(tree, pathname)

RECURSIVE do_update(_, _, _)
do_update(tree, path, obj) ==
  LET entry_name == Head(path) IN
  IF Len(path) = 1
  THEN [tree EXCEPT !.entries = PutEntry(tree.entries, entry_name, obj)]
  ELSE LET sub == IF entry_name \in DOMAIN tree.entries
                  THEN copy(tree.entries[entry_name])
                  ELSE create_tree(entry_name)
       IN [tree EXCEPT !.entries =
             PutEntry(tree.entries, entry_name, do_update(sub, Tail(path), obj))]

RECURSIVE do_remove(_, _)
do_remove(tree, path) ==
  LET entry_name == Head(path) IN
  IF entry_name \notin DOMAIN tree.entries THEN tree
  ELSE IF Len(path) = 1
  THEN [tree EXCEPT !.entries = EraseEntry(tree.entries, entry_name)]
  ELSE LET subtree == do_remove(copy(tree.entries[entry_name]), Tail(path)) IN
       IF empty(subtree)
       THEN [tree EXCEPT !.entries = EraseEntry(tree.entries, entry_name)]
       ELSE [tree EXCEPT !.entries = PutEntry(tree.entries, entry_name, subtree)]

\* The identifier Tree::write gives a tree: the hash of its entries, each
\* entered under the object's own name with the object's identifier.  A
\* blob's identifier is the hash of its text.
RECURSIVE ObjectId(_)
ObjectId(obj) ==
  [type |-> obj.type, oid |-> obj.oid,
   ents |-> { [name |-> obj.entries[n].name, id |-> ObjectId(obj.entries[n])] :
                n \in DOMAIN obj.entries }]

-----------------------------------------------------------------------------
(* Commits.  A pending commit (Branch::next_commit) is a record            *)
(* [parent, tree, new_branch]; a written commit is an element of the       *)
(* store's list `commits`.                                                 *)

create_commit(parent) == [parent |-> parent, tree |-> <<>>, new_branch |-> FALSE]

has_tree(commit) == commit.tree # <<>>

Commit_update(commit, pathname, obj) ==
  LET tree == IF has_tree(commit) THEN commit.tree[1] ELSE create_tree("") IN
  [commit EXCEPT !.tree = <<do_update(tree, pathname, obj)>>]

Commit_remove(commit, pathname) ==
  IF has_tree(commit)
  THEN LET tree == do_remove(commit.tree[1], pathname) IN
       [commit EXCEPT !.tree = IF empty(tree) THEN <<>> ELSE <<tree>>]
  ELSE commit

\* Commit::clone of the written commit `id` of the store: the child commit
\* starts from a copy of the parent's tree.
Commit_clone(c, id) ==
  [parent |-> id, tree |-> <<copy(c.commits[id].tree)>>, new_branch |-> FALSE]

-----------------------------------------------------------------------------
(* The branch table, as loaded from the branches file: the contents of     *)
(* Repository::branches_by_path and branches_by_name.                      *)

BranchTable ==
  IF profile = "bare" THEN {}
  ELSE { [prefix |-> <<"trunk">>,      name |-> "master", is_tag |-> FALSE],
         [prefix |-> <<"tags", "v1">>, name |-> "v1",     is_tag |-> TRUE] }

HistoryName == "flat-history"

branches_by_name == { b.name : b \in BranchTable }

BranchNames == branches_by_name \cup {HistoryName}

BranchOf(name) == CHOOSE b \in BranchTable : b.name = name

\* A variant of is_tag that ignores the declaration.
is_tag_Never(name) == FALSE

is_tag(name) == IF name = HistoryName THEN TRUE ELSE BranchOf(name).is_tag

Prefix(name) == BranchOf(name).prefix

parent_path(path) == SubSeq(path, 1, Len(path) - 1)

\* Repository::find_branch_by_path with no default object: the branch of
\* the longest prefix of pathname in the table, or <<>> when the lookup
\* ends in log.error (which throws).
RECURSIVE find_branch_by_path(_)
find_branch_by_path(pathname) ==
  IF pathname = <<>> THEN <<>>
  ELSE IF \E b \in BranchTable : b.prefix = pathname
  THEN <<(CHOOSE b \in BranchTable : b.prefix = pathname).name>>
  ELSE find_branch_by_path(parent_path(pathname))

\* A variant of get_commit that queues the pending commit at every request.
get_commit_Requeue(c, b, from_branch) ==
  LET br == c.branches[b] IN
  IF br.next_commit # <<>> THEN [c EXCEPT !.commit_queue = Append(@, b)]
  ELSE
    LET nc ==
          IF br.commit # 0 THEN Commit_clone(c, br.commit)
          ELSE IF from_branch # <<>>
          THEN LET from == c.branches[from_branch[1]] IN
               [(IF from.commit # 0 THEN Commit_clone(c, from.commit)
                 ELSE create_commit(0)) EXCEPT !.new_branch = TRUE]
          ELSE create_commit(0)
    IN [c EXCEPT !.branches[b].next_commit = <<nc>>,
                 !.commit_queue = Append(@, b)]

\* Branch::get_commit: the pending commit of branch b, created and queued
\* on the first request of a revision.  from_branch is <<>> or <<name>>.
get_commit(c, b, from_branch) ==
  LET br == c.branches[b] IN
  IF br.next_commit # <<>> THEN c
  ELSE
    LET nc ==
          IF br.commit # 0 THEN Commit_clone(c, br.commit)
          ELSE IF from_branch # <<>>
          THEN LET from == c.branches[from_branch[1]] IN
               [(IF from.commit # 0 THEN Commit_clone(c, from.commit)
                 ELSE create_commit(0)) EXCEPT !.new_branch = TRUE]
          ELSE create_commit(0)
    IN [c EXCEPT !.branches[b].next_commit = <<nc>>,
                 !.commit_queue = Append(@, b)]

-----------------------------------------------------------------------------
(* References of the destination store.  A reference is                    *)
(* [kind, name, deleted_r, target]: refs/<kind>/<name>, or                 *)
(* refs/tags/<name>__deleted_r<deleted_r> when deleted_r >= 0.             *)

RefKey(ref) == [kind |-> ref.kind, name |-> ref.name, deleted_r |-> ref.deleted_r]

SetRef(refs, ref) == { r \in refs : RefKey(r) # RefKey(ref) } \cup {ref}

\* Repository::create_tag: git_tag_create with force.
create_tag(c, commit, name, deleted_r) ==
  [c EXCEPT !.refs = SetRef(@, [kind |-> "tags", name |-> name,
                                deleted_r |-> deleted_r, target |-> commit])]

\* Branch::update: git_reference_create_oid of refs/heads/<name>, with force.
Branch_update(c, b) ==
  [c EXCEPT !.refs = SetRef(@, [kind |-> "heads", name |-> b,
                                deleted_r |-> -1, target |-> c.branches[b].commit])]

delete_branch(c, b, related_revision) ==
  LET tagged == IF c.branches[b].commit # 0
                THEN create_tag(c, c.branches[b].commit, b, related_revision)
                ELSE c
  IN [tagged EXCEPT !.branches[b].commit = 0,
                    !.branches[b].next_commit = <<>>]

\* Commit::write of the pending commit of branch b, after set_commit_info
\* has stamped it: the commit object enters the store.  flushed_at records
\* the related_revision of the Repository::write that wrote it.
WrittenCommit(c, b, commit, related_revision) ==
  [parent |-> commit.parent, tree |-> commit.tree[1],
   new_branch |-> commit.new_branch, branch |-> b,
   signature |-> c.signature[1], message |-> c.commit_log,
   flushed_at |-> related_revision]

\* One turn of the loop of Repository::write, for the i-th queued commit.
WriteOne(c, i, related_revision) ==
  LET b      == c.commit_queue[i]
      commit == c.branches[b].next_commit[1]
      reset  == [c EXCEPT !.branches[b].next_commit = <<>>]
  IN IF has_tree(commit)
     THEN IF c.signature = <<>>
          THEN [reset EXCEPT !.status = "crashed"]
          ELSE [reset EXCEPT
                  !.commits = Append(@, WrittenCommit(c, b, commit, related_revision)),
                  !.branches[b].commit = Len(c.commits) + 1,
                  !.branches_modified = @ + 1]
     ELSE delete_branch(reset, b, related_revision)

RECURSIVE WriteFrom(_, _, _)
WriteFrom(c, i, related_revision) ==
  IF i > Len(c.commit_queue) \/ c.status # "running" THEN c
  ELSE WriteFrom(WriteOne(c, i, related_revision), i + 1, related_revision)

\* Repository::write: flush the queue; branches_modified > 0 is its result.
Repository_write(c, related_revision) ==
  LET done == WriteFrom([c EXCEPT !.branches_modified = 0], 1, related_revision)
  IN IF done.status = "running" THEN [done EXCEPT !.commit_queue = <<>>] ELSE done

RECURSIVE WriteBranchesOf(_, _)
WriteBranchesOf(c, names) ==
  IF names = {} THEN c
  ELSE LET b == CHOOSE n \in names : TRUE
           w == IF c.branches[b].commit # 0
                THEN IF is_tag(b) THEN create_tag(c, c.branches[b].commit, b, -1)
                     ELSE Branch_update(c, b)
                ELSE c
       IN WriteBranchesOf(w, names \ {b})

write_branches(c) == WriteBranchesOf(c, branches_by_name)

-----------------------------------------------------------------------------
(* ConvertRepository.                                                      *)

\* The authors file, as loaded: Authors::authors.
AuthorsTable ==
  [id \in {"alice"} |-> [name |-> "Alice", email |-> "alice@example.org"]]

NoTrees == [k \in {} |-> k]

SetMax(S) == CHOOSE x \in S : \A y \in S : y <= x
SetMin(S) == CHOOSE x \in S : \A y \in S : x <= y

\* The state of a ConvertRepository after construction, with the state of
\* its Repository (branches, commit_queue) and of the destination store
\* (commits, refs).  status is "running" until the run ends: "done" after
\* finish(), "exit1" after the prescan reported errors, "error" after an
\* exception reached main(), "crashed" after a null pointer was followed.
InitConverter ==
  [status            |-> "running",
   rev               |-> -1,
   last_rev          |-> -1,
   rev_trees         |-> NoTrees,
   copy_from         |-> <<>>,
   signature         |-> <<>>,
   commit_log        |-> <<>>,
   errors            |-> 0,
   branches          |-> [b \in BranchNames |-> [commit |-> 0, next_commit |-> <<>>]],
   commit_queue      |-> <<>>,
   branches_modified |-> 0,
   commits           |-> <<>>,
   refs              |-> {}]

Running(c) == c.status = "running"

\* A variant of the loop that pops on the source revision alone.
RECURSIVE PopPassed_SourceOnly(_, _, _)
PopPassed_SourceOnly(copy_from, last_rev, popped) ==
  IF /\ copy_from # <<>>
     /\ last_rev > Head(copy_from)[2]
  THEN PopPassed_SourceOnly(Tail(copy_from), last_rev, Head(copy_from)[2])
  ELSE [copy_from |-> copy_from, popped |-> popped]

\* The loop of free_past_trees: pop the front reservations that last_rev
\* has passed.  The result is [copy_from, popped].
RECURSIVE PopPassed(_, _, _)
PopPassed(copy_from, last_rev, popped) ==
  IF /\ copy_from # <<>>
     /\ last_rev > Head(copy_from)[2]
     /\ last_rev > Head(copy_from)[1]
  THEN PopPassed(Tail(copy_from), last_rev, Head(copy_from)[2])
  ELSE [copy_from |-> copy_from, popped |-> popped]

\* A variant of the erasure that takes the greatest key <= popped too.
ErasePast_Through(rev_trees, popped) ==
  [k \in { k \in DOMAIN rev_trees : k > popped } |-> rev_trees[k]]

\* rev_trees.erase(rev_trees.begin(), i) for i = --upper_bound(popped).
ErasePast(rev_trees, popped) ==
  LET keys  == DOMAIN rev_trees
      upto  == { k \in keys : k <= popped }
  IN IF upto = {} THEN rev_trees
     ELSE [k \in { k \in keys : k >= SetMax(upto) } |-> rev_trees[k]]

free_past_trees(c) ==
  LET p == PopPassed(c.copy_from, c.last_rev, -1) IN
  IF p.popped >= 0
  THEN [c EXCEPT !.copy_from = p.copy_from,
                 !.rev_trees = ErasePast(c.rev_trees, p.popped)]
  ELSE [c EXCEPT !.copy_from = p.copy_from]

\* Variants of the lookup: the latest snapshot whatever the revision, and
\* a fallback to the latest snapshot when no key is small enough.
PastKey_Latest(rev_trees, copy_from_rev) ==
  IF DOMAIN rev_trees # {} THEN <<SetMax(DOMAIN rev_trees)>> ELSE <<>>

PastKey_Lenient(rev_trees, copy_from_rev) ==
  LET keys  == DOMAIN rev_trees
      below == { k \in keys : k <= copy_from_rev }
  IN IF below # {} THEN <<SetMax(below)>>
     ELSE IF keys # {} THEN <<SetMax(keys)>> ELSE <<>>

\* The iterator get_past_tree ends on: <<key>> of the snapshot it returns,
\* or <<>> when it falls through to status.error.
PastKey(rev_trees, copy_from_rev) ==
  LET keys  == DOMAIN rev_trees
      above == { k \in keys : k > copy_from_rev }
  IN IF above = {}
     THEN IF keys # {} THEN <<SetMax(keys)>> ELSE <<>>
     ELSE IF SetMin(above) # SetMin(keys)
     THEN <<SetMax({ k \in keys : k < SetMin(above) })>>
     ELSE <<>>

\* get_past_tree: <<tree>>, or <<>> when it throws.
get_past_tree(c, copy_from_rev) ==
  LET i == PastKey(c.rev_trees, copy_from_rev) IN
  IF i = <<>> THEN <<>> ELSE <<c.rev_trees[i[1]]>>

IsSpace(ch) == ch \in {" ", "\t", "\n", "\r"}

\* First loop of establish_commit_info: the index beg of the first
\* character of log that is not white space (the length when there is none).
RECURSIVE SkipLeading(_, _)
SkipLeading(log, beg) ==
  IF beg < Len(log) /\ IsSpace(log[beg + 1])
  THEN SkipLeading(log, beg + 1) ELSE beg

\* Second loop: len steps down over trailing white space.  At len = 0 it
\* reads the byte before the string; when that byte is white space
\* (oob_space) len wraps to the greatest size_type (here the greatest
\* integer of the model checker), and the loop ends on the next byte.
RECURSIVE SkipTrailing(_, _, _)
SkipTrailing(log, len, oob_space) ==
  IF len = 0 THEN (IF oob_space THEN 2147483647 ELSE 0)
  ELSE IF IsSpace(log[len]) THEN SkipTrailing(log, len - 1, oob_space)
  ELSE len

\* std::string(str, pos, n): the characters from pos, at most n of them.
Substr(str, start, n) ==
  SubSeq(str, start + 1, IF n > Len(str) - start THEN Len(str) ELSE start + n)

\* A variant of establish_commit_info that signs an unrecognized author id
\* as an anonymous author.
establish_commit_info_Anonymous(c, node) ==
  IF node.rev_author = "" THEN c
  ELSE
    LET author_id == node.rev_author
        sig == IF author_id \in DOMAIN AuthorsTable
               THEN [name |-> AuthorsTable[author_id].name,
                     email |-> AuthorsTable[author_id].email,
                     when |-> node.rev_date]
               ELSE [name |-> "unknown", email |-> "unknown@unknown.org",
                     when |-> node.rev_date]
        log == node.rev_log
        beg == IF node.has_log THEN SkipLeading(log, 0) ELSE 0
        len == IF node.has_log THEN SkipTrailing(log, Len(log), node.oob_space)
               ELSE 0
        buf == IF node.has_log /\ len # 0
               THEN Substr(log, beg, len) \o <<"\n", "\n">>
               ELSE <<>>
    IN [c EXCEPT !.signature  = <<sig>>,
                 !.commit_log = buf \o <<"SVN-Revision: " \o ToString(c.rev)>>]

establish_commit_info(c, node) ==
  IF node.rev_author = "" THEN c
  ELSE
    LET author_id == node.rev_author
        sig == IF author_id \in DOMAIN AuthorsTable
               THEN [name |-> AuthorsTable[author_id].name,
                     email |-> AuthorsTable[author_id].email,
                     when |-> node.rev_date]
               ELSE [name |-> author_id, email |-> "unknown@unknown.org",
                     when |-> node.rev_date]
        log == node.rev_log
        beg == IF node.has_log THEN SkipLeading(log, 0) ELSE 0
        len == IF node.has_log THEN SkipTrailing(log, Len(log), node.oob_space)
               ELSE 0
        buf == IF node.has_log /\ len # 0
               THEN Substr(log, beg, len) \o <<"\n", "\n">>
               ELSE <<>>
    IN [c EXCEPT !.signature  = <<sig>>,
                 !.commit_log = buf \o <<"SVN-Revision: " \o ToString(c.rev)>>]

filename(pathname) == pathname[Len(pathname)]

\* A variant of update_object that leaves the historical tree alone.
update_object_BranchOnly(c, pathname, obj, from_branch) ==
  LET h1   == get_commit(c, HistoryName, <<>>)
      hc   == h1.branches[HistoryName].next_commit[1]
      hc2  == hc
      c1   == [h1 EXCEPT !.branches[HistoryName].next_commit = <<hc2>>]
      found == find_branch_by_path(pathname)
  IN
  IF has_tree(hc) /\ CastFails(hc.tree[1], pathname)
  THEN [h1 EXCEPT !.status = "crashed"]
  ELSE IF found = <<>> THEN [c1 EXCEPT !.status = "error"]
  ELSE
    LET branch  == found[1]
        c2      == get_commit(c1, branch, from_branch)
        bc      == c2.branches[branch].next_commit[1]
        subpath == IF Len(pathname) = Len(Prefix(branch)) THEN pathname
                   ELSE SubSeq(pathname, Len(Prefix(branch)) + 1, Len(pathname))
        bc2     == IF obj # <<>> THEN Commit_update(bc, subpath, obj[1])
                   ELSE Commit_remove(bc, subpath)
    IN IF has_tree(bc) /\ CastFails(bc.tree[1], subpath)
       THEN [c2 EXCEPT !.status = "crashed"]
       ELSE [c2 EXCEPT !.branches[branch].next_commit = <<bc2>>]

\* update_object for the main repository, with no submodule mapped to the
\* path.  obj is <<>> (remove) or <<object>>; from_branch is <<>> or
\* <<name>>.
update_object(c, pathname, obj, from_branch) ==
  LET h1   == get_commit(c, HistoryName, <<>>)
      hc   == h1.branches[HistoryName].next_commit[1]
      hc2  == IF obj # <<>> THEN Commit_update(hc, pathname, obj[1])
              ELSE Commit_remove(hc, pathname)
      c1   == [h1 EXCEPT !.branches[HistoryName].next_commit = <<hc2>>]
      found == find_branch_by_path(pathname)
  IN
  IF has_tree(hc) /\ CastFails(hc.tree[1], pathname)
  THEN [h1 EXCEPT !.status = "crashed"]
  ELSE IF found = <<>> THEN [c1 EXCEPT !.status = "error"]
  ELSE
    LET branch  == found[1]
        c2      == get_commit(c1, branch, from_branch)
        bc      == c2.branches[branch].next_commit[1]
        subpath == IF Len(pathname) = Len(Prefix(branch)) THEN pathname
                   ELSE SubSeq(pathname, Len(Prefix(branch)) + 1, Len(pathname))
        bc2     == IF obj # <<>> THEN Commit_update(bc, subpath, obj[1])
                   ELSE Commit_remove(bc, subpath)
    IN IF has_tree(bc) /\ CastFails(bc.tree[1], subpath)
       THEN [c2 EXCEPT !.status = "crashed"]
       ELSE [c2 EXCEPT !.branches[branch].next_commit = <<bc2>>]

\* Repository::create_blob: the blob's identifier is the hash of its text.
create_blob(name, text) == Blob(name, text)

add_file(c, node) ==
  IF node.has_copy_from
  THEN LET from_path == node.copy_from_path
           past_tree == get_past_tree(c, node.copy_from_rev)
       IN IF past_tree = <<>> THEN [c EXCEPT !.status = "error"]
          ELSE IF CastFails(past_tree[1], from_path)
          THEN [c EXCEPT !.status = "crashed"]
          ELSE LET obj == lookup(past_tree[1], from_path) IN
               IF obj = <<>> THEN [c EXCEPT !.status = "crashed"]
               ELSE IF find_branch_by_path(from_path) = <<>>
               THEN [c EXCEPT !.status = "error"]
               ELSE update_object(c, node.path,
                                  <<copy_to_name(obj[1], filename(node.path))>>,
                                  find_branch_by_path(from_path))
  ELSE IF ~(node.action = "change" /\ ~node.has_text)
  THEN update_object(c, node.path,
                     <<create_blob(filename(node.path),
                                   IF node.has_text THEN node.text ELSE 0)>>,
                     <<>>)
  ELSE c

add_directory(c, node) ==
  LET from_path == node.copy_from_path
      past_tree == get_past_tree(c, node.copy_from_rev)
  IN IF past_tree = <<>> THEN [c EXCEPT !.status = "error"]
     ELSE IF CastFails(past_tree[1], from_path)
     THEN [c EXCEPT !.status = "crashed"]
     ELSE LET obj == lookup(past_tree[1], from_path) IN
          IF obj = <<>> THEN c
          ELSE IF find_branch_by_path(from_path) = <<>>
          THEN [c EXCEPT !.status = "error"]
          ELSE update_object(c, node.path,
                             <<copy_to_name(obj[1], filename(node.path))>>,
                             find_branch_by_path(from_path))

delete_item(c, node) == update_object(c, node.path, <<>>, <<>>)

\* A variant of process_change that materializes an added directory.
process_change_MakesDirectories(c, node) ==
  IF node.kind = "file" /\ node.action \in {"add", "change"}
  THEN add_file(c, node)
  ELSE IF node.action = "delete" THEN delete_item(c, node)
  ELSE IF node.has_copy_from /\ node.kind = "dir" /\ node.action = "add"
  THEN add_directory(c, node)
  ELSE IF node.kind = "dir" /\ node.action = "add"
  THEN update_object(c, node.path, <<create_tree(filename(node.path))>>, <<>>)
  ELSE c

process_change(c, node) ==
  IF node.kind = "file" /\ node.action \in {"add", "change"}
  THEN add_file(c, node)
  ELSE IF node.action = "delete" THEN delete_item(c, node)
  ELSE IF node.has_copy_from /\ node.kind = "dir" /\ node.action = "add"
  THEN add_directory(c, node)
  ELSE c

\* A variant of prescan that records the reservations and reports nothing.
prescan_ReportsNothing(c, node) ==
  LET value == <<node.rev, node.copy_from_rev>> IN
  [c EXCEPT !.copy_from =
     IF node.has_copy_from /\ (@ = <<>> \/ @[Len(@)] # value)
     THEN Append(@, value) ELSE @]

\* ConvertRepository::prescan.  find_branch_by_path reports a path with
\* no branch through log.error, which throws.
prescan(c, node) ==
  LET unknown == IF DOMAIN AuthorsTable # {} /\ node.rev_author \notin DOMAIN AuthorsTable
                 THEN 1 ELSE 0
      value   == <<node.rev, node.copy_from_rev>>
      c1 == [c EXCEPT
               !.errors = @ + unknown,
               !.copy_from =
                  IF node.has_copy_from /\ (@ = <<>> \/ @[Len(@)] # value)
                  THEN Append(@, value) ELSE @]
  IN IF /\ BranchTable # {}
        /\ (node.action = "delete" \/ node.kind = "file" \/ node.has_copy_from)
        /\ \/ find_branch_by_path(node.path) = <<>>
           \/ node.has_copy_from /\ find_branch_by_path(node.copy_from_path) = <<>>
     THEN [c1 EXCEPT !.status = "error"]
     ELSE c1

\* converter.copy_from.sort(comparator()): a stable sort on the source
\* revision (the second component).
RECURSIVE InsertSorted(_, _)
InsertSorted(sorted, value) ==
  IF sorted = <<>> THEN <<value>>
  ELSE IF value[2] < Head(sorted)[2] THEN <<value>> \o sorted
  ELSE <<Head(sorted)>> \o InsertSorted(Tail(sorted), value)

RECURSIVE sort(_)
sort(copy_from) ==
  IF copy_from = <<>> THEN <<>>
  ELSE InsertSorted(sort(SubSeq(copy_from, 1, Len(copy_from) - 1)),
                    copy_from[Len(copy_from)])

\* A variant of the insertion keyed by rev, the revision that begins.
insert_past_tree_AtRev(w) ==
  [w EXCEPT !.rev_trees =
     IF w.rev \in DOMAIN @ THEN @
     ELSE [k \in (DOMAIN @) \cup {w.rev} |->
             IF k = w.rev THEN w.commits[w.branches[HistoryName].commit].tree
             ELSE @[k]]]

\* rev_trees.insert(rev_trees_map::value_type(last_rev, ...)) with the tree
\* of the commit of the flat-history branch: std::map::insert leaves an
\* existing key alone.
insert_past_tree(w) ==
  [w EXCEPT !.rev_trees =
     IF w.last_rev \in DOMAIN @ THEN @
     ELSE [k \in (DOMAIN @) \cup {w.last_rev} |->
             IF k = w.last_rev THEN w.commits[w.branches[HistoryName].commit].tree
             ELSE @[k]]]

\* The first half of the revision boundary of operator(): flush last_rev
\* and record the historical tree.  history_branch->commit is null when
\* the flush has just deleted the flat-history branch while it wrote
\* another one.
BeforePrune(c, collect) ==
  LET w == Repository_write(c, c.last_rev) IN
  IF ~Running(w) \/ w.branches_modified = 0 THEN w
  ELSE IF w.branches[HistoryName].commit = 0
  THEN [w EXCEPT !.status = "crashed"]
  ELSE IF collect # 0 /\ c.rev % collect = 0
  THEN write_branches(insert_past_tree(w))
  ELSE insert_past_tree(w)

\* The revision boundary of operator(): flush last_rev, record the
\* historical tree, prune, and set up the commit information of rev.
Boundary(c, node, collect) ==
  LET r == BeforePrune(c, collect)
  IN IF ~Running(r) THEN r
     ELSE establish_commit_info([free_past_trees(r) EXCEPT !.last_rev = c.rev],
                                node)

\* ConvertRepository::operator().
Apply(c, node, collect) ==
  IF node.path = <<>> THEN c
  ELSE LET c0 == [c EXCEPT !.rev = node.rev]
           c1 == IF c0.rev # c0.last_rev THEN Boundary(c0, node, collect) ELSE c0
       IN IF Running(c1) THEN process_change(c1, node) ELSE c1

\* A variant of finish that writes the references without the last flush.
finish_WithoutFlush(c) ==
  LET b == write_branches(c)
      t == IF b.branches[HistoryName].commit # 0
           THEN create_tag(b, b.branches[HistoryName].commit, HistoryName, -1)
           ELSE b
  IN [t EXCEPT !.status = "done"]

\* ConvertRepository::finish, with no submodules.
finish(c) ==
  LET w == Repository_write(c, c.last_rev) IN
  IF ~Running(w) THEN w
  ELSE LET b == write_branches(w)
           t == IF b.branches[HistoryName].commit # 0
                THEN create_tag(b, b.branches[HistoryName].commit, HistoryName, -1)
                ELSE b
       IN [t EXCEPT !.status = "done"]

-----------------------------------------------------------------------------
(* The dump file.  A node is what SvnDump::File::read_next delivers: the   *)
(* node's own fields and the properties of its revision.                   *)

MaxRev == 3
MaxNodes == 4
MaxRevCache == 5
MaxRevMsg == 2

RevBound(prof) ==
  IF prof = "cache" THEN MaxRevCache
  ELSE IF prof \in {"msg", "scan"} THEN MaxRevMsg ELSE MaxRev

NodeBound(prof) ==
  IF prof = "cache" THEN MaxRevCache
  ELSE IF prof = "fanout" THEN MaxRev ELSE MaxNodes

Shape(kind, action, path, has_text, copy_rev, copy_path) ==
  [kind |-> kind, action |-> action, path |-> path, has_text |-> has_text,
   has_copy_from |-> copy_rev >= 0, copy_from_rev |-> copy_rev,
   copy_from_path |-> copy_path]

TrunkA == <<"trunk", "a">>
TrunkB == <<"trunk", "b">>
OtherX == <<"other", "x">>
TrunkSubX == <<"trunk", "sub", "x">>

\* The node records a dump of the profile may hold in revision rev.
Shapes(prof, rev) ==
  LET past == 1 .. (rev - 1) IN
  IF prof = "cache" THEN
      { Shape("file", "add", TrunkA, TRUE, -1, <<>>),
        Shape("dir", "add", <<"trunk">>, FALSE, -1, <<>>) }
      \cup { Shape("file", "add", TrunkB, FALSE, s, TrunkA) : s \in past }
  ELSE IF prof = "msg" THEN
      { Shape("file", "add", TrunkA, TRUE, -1, <<>>),
        Shape("file", "delete", TrunkA, FALSE, -1, <<>>) }
  ELSE IF prof = "scan" THEN
      { Shape("file", "add", TrunkA, TRUE, -1, <<>>),
        Shape("file", "add", OtherX, TRUE, -1, <<>>) }
      \cup { Shape("file", "add", TrunkB, FALSE, s, OtherX) : s \in past \cap {rev - 1} }
  ELSE IF prof = "bare" THEN
      { Shape("file", "add", TrunkA, TRUE, -1, <<>>),
        Shape("file", "change", TrunkA, TRUE, -1, <<>>),
        Shape("file", "delete", TrunkA, FALSE, -1, <<>>),
        Shape("dir", "add", <<"trunk">>, FALSE, -1, <<>>) }
  ELSE IF prof = "copy" THEN
      { Shape("file", "add", TrunkA, TRUE, -1, <<>>),
        Shape("file", "delete", TrunkA, FALSE, -1, <<>>) }
      \cup { Shape("file", "add", TrunkB, FALSE, s, TrunkA) : s \in past }
      \cup { Shape("dir", "add", <<"tags", "v1">>, FALSE, s, <<"trunk">>) : s \in past }
  ELSE IF prof = "replace" THEN
      { Shape("file", "add", TrunkA, TRUE, -1, <<>>),
        Shape("file", "replace", TrunkA, TRUE, -1, <<>>),
        Shape("file", "replace", TrunkB, TRUE, -1, <<>>) }
      \cup { Shape("file", "replace", TrunkB, FALSE, s, TrunkA) : s \in past }
      \cup { Shape("dir", "replace", <<"tags", "v1">>, FALSE, s, <<"trunk">>) :
               s \in past \cap {rev - 1} }
  ELSE IF prof = "fanout" THEN
      { Shape("file", "add", TrunkA, TRUE, -1, <<>>),
        Shape("file", "add", TrunkSubX, TRUE, -1, <<>>),
        Shape("file", "change", TrunkSubX, TRUE, -1, <<>>),
        Shape("file", "delete", TrunkSubX, FALSE, -1, <<>>),
        Shape("file", "add", <<"trunk", "lib", "y">>, TRUE, -1, <<>>),
        Shape("dir", "delete", <<"trunk", "lib">>, FALSE, -1, <<>>) }
  ELSE
      { Shape("file", "add", TrunkA, TRUE, -1, <<>>),
        Shape("file", "delete", TrunkA, FALSE, -1, <<>>),
        Shape("dir", "delete", <<"tags", "v1">>, FALSE, -1, <<>>) }
      \cup { Shape("dir", "add", <<"tags", "v1">>, FALSE, s, <<"trunk">>) :
               s \in past \cap {rev - 1} }

Props(author, has_log, log, oob_space) ==
  [rev_author |-> author, has_log |-> has_log, rev_log |-> log,
   oob_space |-> oob_space]

\* The revision properties a dump of the profile may hold: svn:author
\* (empty when the revision has none) and svn:log.  oob_space is not
\* part of the file: it says whether the byte in front of the log's
\* buffer happens to be white space.
RevProps(prof) ==
  IF prof = "scan" THEN
      { Props("alice", TRUE, <<"x">>, FALSE), Props("bob", TRUE, <<"x">>, FALSE) }
  ELSE IF prof = "msg" THEN
      { Props("alice", TRUE, <<"x">>, FALSE),
        Props("alice", TRUE, <<" ", "x", " ">>, FALSE),
        Props("alice", TRUE, <<" ">>, FALSE),
        Props("alice", TRUE, <<" ">>, TRUE),
        Props("bob", TRUE, <<>>, FALSE),
        Props("", FALSE, <<>>, FALSE) }
  ELSE { Props("alice", TRUE, <<"x">>, FALSE) }

Node(rev, shape, props) ==
  [rev |-> rev, rev_date |-> rev, text |-> rev,
   kind |-> shape.kind, action |-> shape.action, path |-> shape.path,
   has_text |-> shape.has_text, has_copy_from |-> shape.has_copy_from,
   copy_from_rev |-> shape.copy_from_rev, copy_from_path |-> shape.copy_from_path,
   rev_author |-> props.rev_author, has_log |-> props.has_log,
   rev_log |-> props.rev_log, oob_space |-> props.oob_space]

PropsOf(node) ==
  Props(node.rev_author, node.has_log, node.rev_log, node.oob_space)

\* The nodes that may follow the nodes read so far: a further node of the
\* current revision, or the first node of the next one.
NextNodes(prof, sofar) ==
  LET cur == IF sofar = <<>> THEN 0 ELSE sofar[Len(sofar)].rev IN
  { Node(cur, sh, PropsOf(sofar[Len(sofar)])) :
      sh \in IF cur > 0 /\ prof # "cache" THEN Shapes(prof, cur) ELSE {} }
  \cup
  { Node(cur + 1, x[1], x[2]) :
      x \in IF cur < RevBound(prof)
            THEN Shapes(prof, cur + 1) \X RevProps(prof) ELSE {} }

-----------------------------------------------------------------------------
(* main(): the convert command.                                            *)

\* A variant of the cutoff test that lets revision cutoff through.
Cut_After(node) == opts.cutoff # -1 /\ node.rev > opts.cutoff

\* The loops of main() leave at the first node of revision cutoff.
Cut(node) == opts.cutoff # -1 /\ node.rev >= opts.cutoff

Started(node) == opts.start = -1 \/ node.rev >= opts.start

\* The convert command as built without USE_THREADS starts no pipeline, and
\* the conversion engine is followed from the nodes the reader delivers.
NoPipe == <<>>

NoReader == <<>>

NoLoader == <<>>

NoHeap == <<>>

Init ==
  /\ profile = "tree"
  /\ heap = NoHeap
  /\ opts \in { [cutoff |-> -1, start |-> -1, collect |-> 0],
                [cutoff |-> MaxRev, start |-> -1, collect |-> 0],
                [cutoff |-> -1, start |-> -1, collect |-> 2] }
  /\ dump = <<>>
  /\ pc = "scan"
  /\ pos = 1
  /\ pre = InitConverter
  /\ skp = InitConverter
  /\ pipe = NoPipe
  /\ rd = NoReader
  /\ ld = NoLoader

InitCopy ==
  /\ profile = "copy"
  /\ heap = NoHeap
  /\ opts = [cutoff |-> -1, start |-> -1, collect |-> 0]
  /\ dump = <<>>
  /\ pc = "scan"
  /\ pos = 1
  /\ pre = InitConverter
  /\ skp = InitConverter
  /\ pipe = NoPipe
  /\ rd = NoReader
  /\ ld = NoLoader

InitCache ==
  /\ profile = "cache"
  /\ heap = NoHeap
  /\ opts = [cutoff |-> -1, start |-> -1, collect |-> 0]
  /\ dump = <<>>
  /\ pc = "scan"
  /\ pos = 1
  /\ pre = InitConverter
  /\ skp = InitConverter
  /\ pipe = NoPipe
  /\ rd = NoReader
  /\ ld = NoLoader

InitMsg ==
  /\ profile = "msg"
  /\ heap = NoHeap
  /\ opts = [cutoff |-> -1, start |-> -1, collect |-> 0]
  /\ dump = <<>>
  /\ pc = "scan"
  /\ pos = 1
  /\ pre = InitConverter
  /\ skp = InitConverter
  /\ pipe = NoPipe
  /\ rd = NoReader
  /\ ld = NoLoader

InitScan ==
  /\ profile = "scan"
  /\ heap = NoHeap
  /\ opts = [cutoff |-> -1, start |-> -1, collect |-> 0]
  /\ dump = <<>>
  /\ pc = "scan"
  /\ pos = 1
  /\ pre = InitConverter
  /\ skp = InitConverter
  /\ pipe = NoPipe
  /\ rd = NoReader
  /\ ld = NoLoader

InitBare ==
  /\ profile = "bare"
  /\ heap = NoHeap
  /\ opts = [cutoff |-> -1, start |-> -1, collect |-> 0]
  /\ dump = <<>>
  /\ pc = "scan"
  /\ pos = 1
  /\ pre = InitConverter
  /\ skp = InitConverter
  /\ pipe = NoPipe
  /\ rd = NoReader
  /\ ld = NoLoader

InitReplace ==
  /\ profile = "replace"
  /\ heap = NoHeap
  /\ opts = [cutoff |-> -1, start |-> -1, collect |-> 0]
  /\ dump = <<>>
  /\ pc = "scan"
  /\ pos = 1
  /\ pre = InitConverter
  /\ skp = InitConverter
  /\ pipe = NoPipe
  /\ rd = NoReader
  /\ ld = NoLoader

\* The prescan loop reads one more node of the file.
ReadPrescan ==
  /\ pc = "scan"
  /\ Len(dump) < NodeBound(profile)
  /\ IF dump = <<>> THEN TRUE ELSE ~Cut(dump[Len(dump)])
  /\ \E node \in NextNodes(profile, dump) :
       /\ dump' = Append(dump, node)
       /\ pre' = IF Running(pre) /\ ~Cut(node) /\ Started(node)
                 THEN prescan(pre, node) ELSE pre
  /\ UNCHANGED <<profile, opts, pc, pos, skp, pipe, rd, ld, heap>>

\* The prescan loop ends (end of file, or cutoff): sort the reservations,
\* give up on errors, rewind.
EndPrescan ==
  /\ pc = "scan"
  /\ pre' = IF ~Running(pre) THEN pre
            ELSE [pre EXCEPT !.copy_from = sort(@),
                             !.status = IF pre.errors > 0 THEN "exit1" ELSE @]
  /\ pc' = "convert"
  /\ pos' = 1
  /\ UNCHANGED <<profile, opts, dump, skp, pipe, rd, ld, heap>>

RunApply(c, node) ==
  IF Running(c) /\ Started(node) THEN Apply(c, node, opts.collect) ELSE c

\* The apply loop reads the next node and hands it to the converter.
Convert ==
  /\ pc = "convert"
  /\ pos <= Len(dump)
  /\ ~Cut(dump[pos])
  /\ pre' = RunApply(pre, dump[pos])
  /\ skp' = RunApply(skp, dump[pos])
  /\ pos' = pos + 1
  /\ UNCHANGED <<profile, opts, dump, pc, pipe, rd, ld, heap>>

\* The apply loop ends: converter.finish().
Finish ==
  /\ pc = "convert"
  /\ IF pos > Len(dump) THEN TRUE ELSE Cut(dump[pos])
  /\ pre' = IF Running(pre) THEN finish(pre) ELSE pre
  /\ skp' = IF Running(skp) THEN finish(skp) ELSE skp
  /\ pc' = "done"
  /\ UNCHANGED <<profile, opts, dump, pos, pipe, rd, ld, heap>>

Next == ReadPrescan \/ EndPrescan \/ Convert \/ Finish

Spec == Init /\ [][Next]_vars

SpecCopy == InitCopy /\ [][Next]_vars

SpecCache == InitCache /\ [][Next]_vars

SpecMsg == InitMsg /\ [][Next]_vars

SpecBare == InitBare /\ [][Next]_vars

SpecScan == InitScan /\ [][Next]_vars

SpecReplace == InitReplace /\ [][Next]_vars

-----------------------------------------------------------------------------
(* The two-thread pipeline of a build with USE_THREADS: read_all_nodes     *)
(* runs in the reader thread and pushes every node it reads into a         *)
(* concurrent_queue; main() pops and applies them.  pipe is a record:      *)
(*   input      the text of each node of the dump, in file order           *)
(*   next       index in input of the node read_next delivers next         *)
(*   curr_node  the reader's SvnDump::File::curr_node                      *)
(*   the_queue  the nodes in the std::queue, oldest first                  *)
(*   deleted    the_queue == nullptr                                       *)
(*   the_mutex  "free", or the thread that holds the lock                  *)
(*   waiting_on_contents, waiting_on_empty  the threads blocked in wait()  *)
(*   at         where each thread stands                                   *)
(*   node       the variable main() pops into                              *)
(*   pushed, applied  what get_text() and the other getters showed of each *)
(*              node when it was pushed, and when it was applied           *)
(* A text pointer is "nullptr", "static_buffer" (the node's own buffer),   *)
(* "heap" (a new char[] holding heap_text) or "indeterminate".  The text   *)
(* of the i-th node of the dump is the number i; 0 is no text.             *)

PipeLen == 3

Producer == "producer"

Consumer == "consumer"

TextKinds == {"none", "static", "heap"}

\* Node(): curr_txn(-1), text(nullptr), text_allocated(false), text_len(0),
\* curr_rev(-1); static_buffer holds nothing yet.
Node_default ==
  [curr_rev |-> -1, curr_txn |-> -1, text |-> "nullptr", heap_text |-> 0,
   text_allocated |-> FALSE, text_len |-> 0, static_buffer |-> 0]

\* The memory a Node(Node&&) constructor starts from: no member has been
\* initialised when it assigns.
Node_raw ==
  [curr_rev |-> -1, curr_txn |-> -1, text |-> "indeterminate",
   heap_text |-> 0, text_allocated |-> FALSE, text_len |-> 0,
   static_buffer |-> 0]

has_text(node) == node.text # "nullptr"

get_text(node) ==
  IF node.text = "heap" THEN node.heap_text
  ELSE IF node.text = "static_buffer" THEN node.static_buffer
  ELSE 0

\* What the getters of a node show.
Shown(node) ==
  [rev |-> node.curr_rev, txn |-> node.curr_txn,
   has_text |-> has_text(node),
   text |-> IF node.text_len > 0 THEN get_text(node) ELSE 0]

\* The i-th node of the dump as read_next leaves it in curr_node: two nodes
\* to a revision; a text longer than STATIC_BUFLEN goes to a new char[], a
\* shorter one to static_buffer, and text points at whichever holds it.
ReadNode(curr, i, kind) ==
  [curr_rev |-> (i + 1) \div 2, curr_txn |-> (i + 1) % 2,
   text |-> IF kind = "heap" THEN "heap"
            ELSE IF kind = "static" THEN "static_buffer" ELSE "nullptr",
   heap_text |-> IF kind = "heap" THEN i ELSE 0,
   text_allocated |-> kind = "heap",
   text_len |-> IF kind = "heap" THEN 2 ELSE IF kind = "static" THEN 1 ELSE 0,
   static_buffer |-> IF kind = "static" THEN i ELSE curr.static_buffer]

\* Node::operator=(Node&&), the assigned-to node: every field is copied but
\* text; a text that is not allocated is copied into static_buffer and text
\* is left as it was, an allocated one is taken over.
Node_move(this, other) ==
  [curr_rev |-> other.curr_rev, curr_txn |-> other.curr_txn,
   text |-> IF other.text_allocated THEN other.text ELSE this.text,
   heap_text |-> IF other.text_allocated THEN other.heap_text
                 ELSE this.heap_text,
   text_allocated |-> other.text_allocated, text_len |-> other.text_len,
   static_buffer |-> IF ~other.text_allocated /\ other.text_len > 0
                     THEN other.static_buffer ELSE this.static_buffer]

\* Node::operator=(Node&&), the node moved from.
Node_moved_from(other) ==
  IF other.text_allocated
  THEN [other EXCEPT !.text = "nullptr", !.heap_text = 0,
                     !.text_allocated = FALSE, !.text_len = 0]
  ELSE other

\* condition_variable::notify_one: with no thread waiting it does nothing.
notify_one_Lost(waiting) == waiting

notify_one(waiting) ==
  IF waiting = {} THEN {} ELSE waiting \ {CHOOSE t \in waiting : TRUE}

InitPipe ==
  /\ profile = "pipe"
  /\ heap = NoHeap
  /\ opts \in { [cutoff |-> -1, start |-> -1, collect |-> 0],
                [cutoff |-> 2, start |-> -1, collect |-> 0],
                [cutoff |-> -1, start |-> 2, collect |-> 0] }
  /\ dump = <<>>
  /\ pc = "done"
  /\ pos = 1
  /\ pre = InitConverter
  /\ skp = InitConverter
  /\ rd = NoReader
  /\ ld = NoLoader
  /\ \E n \in 0..PipeLen : \E input \in [1..n -> TextKinds] :
       pipe = [input |-> input, next |-> 1, curr_node |-> Node_default,
               the_queue |-> <<>>, deleted |-> FALSE, the_mutex |-> "free",
               waiting_on_contents |-> {}, waiting_on_empty |-> {},
               at |-> [producer |-> "read_next", consumer |-> "pop"],
               node |-> Node_default, pushed |-> <<>>, applied |-> <<>>]

Rest == <<profile, opts, dump, pc, pos, pre, skp, rd, ld, heap>>

\* read_all_nodes, one turn of its loop up to the push: read_next, the
\* cutoff test that leaves the loop, the start test that skips the push.
read_all_nodes ==
  /\ profile = "pipe"
  /\ pipe.at.producer = "read_next"
  /\ IF pipe.next > Len(pipe.input)
     THEN pipe' = [pipe EXCEPT !.at.producer = "clear"]
     ELSE LET node == ReadNode(pipe.curr_node, pipe.next,
                               pipe.input[pipe.next])
              rev == node.curr_rev
          IN  pipe' = [pipe EXCEPT
                !.curr_node = node,
                !.next = @ + 1,
                !.at.producer =
                   IF opts.cutoff # -1 /\ rev >= opts.cutoff THEN "clear"
                   ELSE IF opts.start = -1 \/ rev >= opts.start THEN "push"
                   ELSE "read_next"]
  /\ UNCHANGED Rest

\* mutex::scoped_lock lock(the_mutex), at the head of push, clear and pop
\* and on the way out of wait() once the thread has been woken (it is
\* no longer in the set of waiting threads).
lock(thread) ==
  /\ profile = "pipe"
  /\ pipe.at[thread] \in {"push", "clear", "pop", "wait"}
  /\ thread \notin pipe.waiting_on_contents \cup pipe.waiting_on_empty
  /\ pipe.the_mutex = "free"
  /\ pipe' = [pipe EXCEPT
       !.the_mutex = thread,
       !.at[thread] = IF @ = "wait"
                      THEN (IF thread = Producer THEN "clear_locked"
                            ELSE "pop_locked")
                      ELSE IF @ = "push" THEN "push_locked"
                      ELSE IF @ = "clear" THEN "clear_locked"
                      ELSE "pop_locked"]
  /\ UNCHANGED Rest

\* push, under the lock: the_queue->push(move(data)), which builds the
\* queued node with Node(Node&&); the lock's scope ends.
push ==
  /\ profile = "pipe"
  /\ pipe.at.producer = "push_locked"
  /\ pipe' = [pipe EXCEPT
       !.the_queue = Append(@, Node_move(Node_raw, pipe.curr_node)),
       !.curr_node = Node_moved_from(@),
       !.pushed = Append(@, Shown(pipe.curr_node)),
       !.the_mutex = "free",
       !.at.producer = "push_notify"]
  /\ UNCHANGED Rest

\* push, after the lock: waiting_on_contents.notify_one().
push_notify ==
  /\ profile = "pipe"
  /\ pipe.at.producer = "push_notify"
  /\ pipe' = [pipe EXCEPT
       !.waiting_on_contents = notify_one(@),
       !.at.producer = "read_next"]
  /\ UNCHANGED Rest

\* clear, under the lock: wait on waiting_on_empty while the queue holds a
\* node; then delete it, null the pointer and notify waiting_on_contents.
clear ==
  /\ profile = "pipe"
  /\ pipe.at.producer = "clear_locked"
  /\ IF pipe.the_queue # <<>>
     THEN pipe' = [pipe EXCEPT
            !.waiting_on_empty = @ \cup {Producer},
            !.the_mutex = "free",
            !.at.producer = "wait"]
     ELSE pipe' = [pipe EXCEPT
            !.deleted = TRUE,
            !.waiting_on_contents = notify_one(@),
            !.the_mutex = "free",
            !.at.producer = "returned"]
  /\ UNCHANGED Rest

\* pop, under the lock: wait on waiting_on_contents while the queue is there
\* and empty; return false once it is deleted; else move the front node out.
pop ==
  /\ profile = "pipe"
  /\ pipe.at.consumer = "pop_locked"
  /\ IF ~pipe.deleted /\ pipe.the_queue = <<>>
     THEN pipe' = [pipe EXCEPT
            !.waiting_on_contents = @ \cup {Consumer},
            !.the_mutex = "free",
            !.at.consumer = "wait"]
     ELSE IF pipe.deleted
     THEN pipe' = [pipe EXCEPT
            !.waiting_on_empty = notify_one(@),
            !.the_mutex = "free",
            !.at.consumer = "end_of_stream"]
     ELSE pipe' = [pipe EXCEPT
            !.node = Node_move(@, Head(pipe.the_queue)),
            !.the_queue = Tail(@),
            !.waiting_on_empty = notify_one(@),
            !.the_mutex = "free",
            !.at.consumer = "apply"]
  /\ UNCHANGED Rest

\* The body of main()'s loop: the popped node is handed to the converter.
apply_node ==
  /\ profile = "pipe"
  /\ pipe.at.consumer = "apply"
  /\ pipe' = [pipe EXCEPT
       !.applied = Append(@, Shown(pipe.node)),
       !.at.consumer = "pop"]
  /\ UNCHANGED Rest

\* condition_variable::wait may return without a notify.
spurious_wakeup ==
  /\ profile = "pipe"
  /\ \E thread \in pipe.waiting_on_contents \cup pipe.waiting_on_empty :
       pipe' = [pipe EXCEPT !.waiting_on_contents = @ \ {thread},
                            !.waiting_on_empty = @ \ {thread}]
  /\ UNCHANGED Rest

ProducerStep == read_all_nodes \/ lock(Producer) \/ push \/ push_notify \/ clear

ConsumerStep == lock(Consumer) \/ pop \/ apply_node

NextPipe == ProducerStep \/ ConsumerStep \/ spurious_wakeup

SpecPipe == InitPipe /\ [][NextPipe]_vars

\* Each thread is scheduled again and again, and a thread that finds the
\* mutex free again and again gets it.
SpecPipeFair ==
  InitPipe /\ [][NextPipe]_vars /\ SF_vars(ProducerStep) /\ SF_vars(ConsumerStep)

-----------------------------------------------------------------------------
(* The dump reader, SvnDump::File.  The stream is a sequence of tokens: a  *)
(* header line [tag, val], the empty line (tag ""), a property block (tag  *)
(* "PROPS", read or skipped as Prop-content-length bytes) and a text block *)
(* (tag "TEXT", Text-content-length bytes).  rd is a record: the stream,   *)
(* the get position `at` and eofbit of the ifstream, the members of File   *)
(* and of its curr_node, and, for the loop that calls read_next, the       *)
(* flags of the pass, what the last call returned and the nodes each pass  *)
(* was given.                                                              *)

MaxRecords == 4

Tok(tag, val) == [tag |-> tag, val |-> val]

MD5(text) == <<"md5", text>>

\* What a dump starts with: the format version and the UUID of the
\* repository, each followed by an empty line.
Preamble ==
  << Tok("SVN-fs-dump-format-version", 2), Tok("", 0),
     Tok("UUID", 0), Tok("", 0) >>

RecordKinds ==
  {"revision", "revision_anon", "node_delete", "node_copy", "node_text",
   "node_text_bad", "node_empty_bad"}

IsRevision(kind) == kind \in {"revision", "revision_anon", "revision_nolog"}

\* The number of the revision the i-th record is, or belongs to.
RevOf(records, i) ==
  Cardinality({ j \in 1..i : IsRevision(records[j]) })

PathOf(i) == <<"trunk", i>>

\* The tokens of the i-th record, as svnadmin dump writes it: a revision
\* with its svn:date and, unless the commit was anonymous, its svn:author,
\* and, unless the revision has none, its svn:log; a deletion (headers only); a directory copied (properties
\* only); a file changed (text only, with the MD5 of the text); a file
\* added (properties and text, with the MD5 of another text); an empty file
\* added (properties, a text of no bytes, with the MD5 of another text).
\* The text of the i-th record is the number i, the text of no bytes is 0.
RecordTokens(records, i) ==
  LET kind == records[i]
      rev  == RevOf(records, i)
  IN  IF IsRevision(kind)
      THEN << Tok("Revision-number", rev), Tok("Prop-content-length", 100),
              Tok("Content-length", 100), Tok("", 0),
              Tok("PROPS", [author |-> IF kind = "revision_anon"
                                       THEN <<>> ELSE <<"alice">>,
                            date |-> <<rev>>,
                            log |-> IF kind = "revision_nolog"
                                    THEN <<>> ELSE <<rev>>]),
              Tok("", 0) >>
      ELSE IF kind = "node_delete"
      THEN << Tok("Node-path", PathOf(i)), Tok("Node-action", "delete"),
              Tok("", 0), Tok("", 0) >>
      ELSE IF kind = "node_copy"
      THEN << Tok("Node-path", PathOf(i)), Tok("Node-kind", "dir"),
              Tok("Node-action", "add"),
              Tok("Node-copyfrom-rev", rev - 1),
              Tok("Node-copyfrom-path", <<"trunk">>),
              Tok("Prop-content-length", 10), Tok("Content-length", 10),
              Tok("", 0),
              Tok("PROPS", [author |-> <<>>, date |-> <<>>, log |-> <<>>]),
              Tok("", 0), Tok("", 0) >>
      ELSE IF kind = "node_text"
      THEN << Tok("Node-path", PathOf(i)), Tok("Node-kind", "file"),
              Tok("Node-action", "change"),
              Tok("Text-content-length", 5),
              Tok("Text-content-md5", MD5(i)),
              Tok("Content-length", 5), Tok("", 0),
              Tok("TEXT", i),
              Tok("", 0), Tok("", 0) >>
      ELSE IF kind = "node_text_bad"
      THEN << Tok("Node-path", PathOf(i)), Tok("Node-kind", "file"),
              Tok("Node-action", "add"),
              Tok("Prop-content-length", 10),
              Tok("Text-content-length", 5),
              Tok("Text-content-md5", MD5(0)),
              Tok("Content-length", 15), Tok("", 0),
              Tok("PROPS", [author |-> <<>>, date |-> <<>>, log |-> <<>>]),
              Tok("TEXT", i),
              Tok("", 0), Tok("", 0) >>
      ELSE << Tok("Node-path", PathOf(i)), Tok("Node-kind", "file"),
              Tok("Node-action", "add"),
              Tok("Prop-content-length", 10),
              Tok("Text-content-length", 0),
              Tok("Text-content-md5", MD5(i)),
              Tok("Content-length", 10), Tok("", 0),
              Tok("PROPS", [author |-> <<>>, date |-> <<>>, log |-> <<>>]),
              Tok("", 0), Tok("", 0) >>

RECURSIVE StreamFrom(_, _)
StreamFrom(records, i) ==
  IF i > Len(records) THEN <<>>
  ELSE RecordTokens(records, i) \o StreamFrom(records, i + 1)

StreamOf(records) == Preamble \o StreamFrom(records, 1)

\* Node::reset.
Node_reset(node) ==
  [node EXCEPT !.kind = "none", !.action = "none", !.pathname = <<>>,
               !.text = <<>>, !.text_len = 0, !.md5_checksum = <<>>,
               !.copy_from_rev = <<>>, !.copy_from_path = <<>>]

Node_new ==
  [curr_txn |-> -1, kind |-> "none", action |-> "none", pathname |-> <<>>,
   text |-> <<>>, text_len |-> 0, md5_checksum |-> <<>>,
   copy_from_rev |-> <<>>, copy_from_path |-> <<>>]

\* File(const filesystem::path&): curr_rev(-1) and an open handle; last_rev
\* and rev_date are given no value.
File_new(stream) ==
  [stream |-> stream, at |-> 1, eofbit |-> FALSE,
   curr_rev |-> -1, last_rev |-> "indeterminate", rev_author |-> "",
   rev_date |-> "indeterminate", rev_log |-> <<>>, curr_node |-> Node_new]

\* The local variables of read_next.
Locals(prop, text, saw) ==
  [prop_content_length |-> prop, text_content_length |-> text,
   saw_node_path |-> saw]

\* STATE_TAGS, a header line: the fields the line sets.
read_tag(f, loc, tok, verify) ==
  LET tag == tok.tag
      val == tok.val
  IN  IF tag = "Node-path"
      THEN [f |-> [f EXCEPT !.curr_node.curr_txn = @ + 1,
                            !.curr_node.pathname = val],
            loc |-> [loc EXCEPT !.saw_node_path = TRUE]]
      ELSE IF tag = "Node-kind"
      THEN [f |-> [f EXCEPT !.curr_node.kind = val], loc |-> loc]
      ELSE IF tag = "Node-action"
      THEN [f |-> [f EXCEPT !.curr_node.action = val], loc |-> loc]
      ELSE IF tag = "Node-copyfrom-rev"
      THEN [f |-> [f EXCEPT !.curr_node.copy_from_rev = <<val>>], loc |-> loc]
      ELSE IF tag = "Node-copyfrom-path"
      THEN [f |-> [f EXCEPT !.curr_node.copy_from_path = <<val>>], loc |-> loc]
      ELSE IF tag = "Prop-content-length"
      THEN [f |-> f, loc |-> [loc EXCEPT !.prop_content_length = val]]
      ELSE IF tag = "Revision-number"
      THEN [f |-> [f EXCEPT !.curr_rev = val, !.rev_log = <<>>,
                            !.curr_node.curr_txn = -1],
            loc |-> loc]
      ELSE IF tag = "Text-content-length"
      THEN [f |-> f, loc |-> [loc EXCEPT !.text_content_length = val]]
      ELSE IF tag = "Text-content-md5" /\ verify
      THEN [f |-> [f EXCEPT !.curr_node.md5_checksum = <<val>>], loc |-> loc]
      ELSE [f |-> f, loc |-> loc]

\* STATE_TAGS, the empty line that ends the headers: where to go next.
\* "yield" is return true.
end_tags_NeverYields(loc) ==
  IF loc.prop_content_length > 0 THEN "PROPS"
  ELSE IF loc.text_content_length > 0 THEN "BODY"
  ELSE "NEXT"

end_tags(loc) ==
  IF loc.prop_content_length > 0 THEN "PROPS"
  ELSE IF loc.text_content_length > 0 THEN "BODY"
  ELSE IF loc.saw_node_path THEN "yield"
  ELSE "NEXT"

\* STATE_PROPS: the properties of a node are skipped, those of a revision
\* are parsed; each one present overwrites its member.  (No revision of
\* these dumps carries svn:sync-last-merged-rev, which would set last_rev.)
read_props(f, block) ==
  IF f.curr_node.curr_txn >= 0 THEN f
  ELSE [f EXCEPT
         !.rev_date = IF block.date # <<>> THEN block.date[1] ELSE @,
         !.rev_author = IF block.author # <<>> THEN block.author[1] ELSE @,
         !.rev_log = IF block.log # <<>> THEN block.log ELSE @]

\* end_props, and the end of STATE_BODY.
end_record(f) ==
  IF f.curr_rev = -1 \/ f.curr_node.curr_txn = -1 THEN "NEXT" ELSE "yield"

end_props(f, loc) ==
  IF loc.text_content_length > 0 THEN "BODY" ELSE end_record(f)

\* STATE_BODY with verify: the assert on the MD5 of the text read.
checksum_ok(node) ==
  node.md5_checksum = <<>> \/ node.md5_checksum[1] = MD5(node.text[1])

\* The loop of read_next from state `state`.  The outcome is the File as
\* the call leaves it and what the call did: "true", "false", or "abort"
\* for a failed assert.  A peek or a getline at the end of the stream sets
\* eofbit; the line it leaves is empty and the loop ends at its next test.
RECURSIVE read_loop(_, _, _, _, _)
read_loop(f, state, loc, ignore_text, verify) ==
  IF f.eofbit THEN [f |-> f, result |-> "false"]
  ELSE IF state = "NEXT"
  THEN LET g == [f EXCEPT !.curr_node = Node_reset(@)]
           h == IF g.at > Len(g.stream) THEN [g EXCEPT !.eofbit = TRUE]
                ELSE IF g.stream[g.at].tag = "" THEN [g EXCEPT !.at = @ + 1]
                ELSE g
       IN  read_loop(h, "TAGS", Locals(-1, -1, FALSE), ignore_text, verify)
  ELSE IF state = "TAGS"
  THEN IF f.at > Len(f.stream)
       THEN [f |-> [f EXCEPT !.eofbit = TRUE], result |-> "false"]
       ELSE LET tok == f.stream[f.at]
                g   == [f EXCEPT !.at = @ + 1]
            IN  IF tok.tag = ""
                THEN IF end_tags(loc) = "yield"
                     THEN [f |-> g, result |-> "true"]
                     ELSE read_loop(g, end_tags(loc), loc, ignore_text, verify)
                ELSE LET r == read_tag(g, loc, tok, verify)
                     IN  read_loop(r.f, "TAGS", r.loc, ignore_text, verify)
  ELSE IF state = "PROPS"
  THEN IF f.at > Len(f.stream)
       THEN [f |-> [f EXCEPT !.eofbit = TRUE], result |-> "false"]
       ELSE LET g == [read_props(f, f.stream[f.at].val) EXCEPT !.at = @ + 1]
            IN  IF end_props(g, loc) = "yield"
                THEN [f |-> g, result |-> "true"]
                ELSE read_loop(g, end_props(g, loc), loc, ignore_text, verify)
  ELSE \* "BODY"
       LET g == IF ignore_text THEN [f EXCEPT !.at = @ + 1]
                ELSE [f EXCEPT !.at = @ + 1,
                               !.curr_node.text = <<f.stream[f.at].val>>,
                               !.curr_node.text_len = loc.text_content_length]
       IN  IF ~ignore_text /\ verify /\ ~checksum_ok(g.curr_node)
           THEN [f |-> g, result |-> "abort"]
           ELSE IF end_record(g) = "yield"
           THEN [f |-> g, result |-> "true"]
           ELSE [f |-> g, result |-> "abort"]

read_next(f, ignore_text, verify) ==
  read_loop(f, "NEXT", Locals(-1, -1, FALSE), ignore_text, verify)

\* File::rewind.
rewind(f) ==
  [f EXCEPT !.eofbit = FALSE, !.at = 1,
            !.curr_node = [Node_reset(@) EXCEPT !.curr_txn = -1],
            !.last_rev = -1, !.curr_rev = -1]

\* The (ignore_text, verify) pairs the callers of read_next pass.
Flags == { <<TRUE, FALSE>>, <<FALSE, FALSE>>, <<FALSE, TRUE>> }

\* What the caller can ask a delivered node and its File.
Delivered(f) ==
  [path |-> f.curr_node.pathname, kind |-> f.curr_node.kind,
   action |-> f.curr_node.action,
   copy_from_rev |-> f.curr_node.copy_from_rev,
   copy_from_path |-> f.curr_node.copy_from_path,
   txn |-> f.curr_node.curr_txn, rev |-> f.curr_rev,
   author |-> f.rev_author, date |-> f.rev_date, log |-> f.rev_log]

InitReader ==
  /\ profile = "reader"
  /\ heap = NoHeap
  /\ opts = [cutoff |-> -1, start |-> -1, collect |-> 0]
  /\ dump = <<>>
  /\ pc = "done"
  /\ pos = 1
  /\ pre = InitConverter
  /\ skp = InitConverter
  /\ pipe = NoPipe
  /\ ld = NoLoader
  /\ \E n \in 1..MaxRecords : \E records \in [1..n -> RecordKinds] :
     \E flags \in Flags :
       /\ IsRevision(records[1])
       /\ rd = [file |-> File_new(StreamOf(records)), records |-> records,
                ignore_text |-> flags[1], verify |-> flags[2],
                pass |-> 1, result |-> "none", yielded |-> << <<>>, <<>> >>]

\* One turn of a loop `while (dump.read_next(ignore_text, verify))`.
ReadNext ==
  /\ profile = "reader"
  /\ rd.result \in {"none", "true"}
  /\ LET r == read_next(rd.file, rd.ignore_text, rd.verify)
     IN  rd' = [rd EXCEPT
           !.file = r.f,
           !.result = r.result,
           !.yielded[rd.pass] = IF r.result = "true"
                                THEN Append(@, Delivered(r.f)) ELSE @]
  /\ UNCHANGED <<profile, opts, dump, pc, pos, pre, skp, pipe, ld, heap>>

\* After the first loop has ended: dump.rewind(), and a second loop.
Rewind ==
  /\ profile = "reader"
  /\ rd.result = "false"
  /\ rd.pass = 1
  /\ \E flags \in Flags :
       rd' = [rd EXCEPT !.file = rewind(@), !.pass = 2, !.result = "none",
                        !.ignore_text = flags[1], !.verify = flags[2]]
  /\ UNCHANGED <<profile, opts, dump, pc, pos, pre, skp, pipe, ld, heap>>

NextReader == ReadNext \/ Rewind

SpecReader == InitReader /\ [][NextReader]_vars

\* Dumps whose revisions differ in the properties they carry.
PropsKinds ==
  {"revision", "revision_anon", "revision_nolog", "node_delete", "node_text"}

InitProps ==
  /\ profile = "reader"
  /\ heap = NoHeap
  /\ opts = [cutoff |-> -1, start |-> -1, collect |-> 0]
  /\ dump = <<>>
  /\ pc = "done"
  /\ pos = 1
  /\ pre = InitConverter
  /\ skp = InitConverter
  /\ pipe = NoPipe
  /\ ld = NoLoader
  /\ \E n \in 1..MaxRecords : \E records \in [1..n -> PropsKinds] :
       /\ IsRevision(records[1])
       /\ rd = [file |-> File_new(StreamOf(records)), records |-> records,
                ignore_text |-> TRUE, verify |-> FALSE,
                pass |-> 1, result |-> "none", yielded |-> << <<>>, <<>> >>]

SpecProps == InitProps /\ [][NextReader]_vars

-----------------------------------------------------------------------------
(* The branches file and the modules file.  Each loader reads its file one *)
(* line a turn of its loop; ld is a record: the lines of the file, the     *)
(* index of the next line, the error count, and the tables built so far.   *)

MaxLines == 3

\* A line of the branches file as strtok splits it: field 0 gives is_tag,
\* field 4 the prefix, field 5 the name; a field the line does not have
\* stays empty.  A line that starts with '#' is a comment.
BranchLine(comment, tag, prefix, name) ==
  [comment |-> comment, is_tag |-> tag, prefix |-> prefix, name |-> name]

BranchLines ==
  { BranchLine(FALSE, FALSE, prefix, name) :
      prefix \in { <<"trunk">>, <<"trunk", "sub">>, <<"tags">> },
      name \in { "master", "sub" } }
  \cup { BranchLine(TRUE, FALSE, <<>>, ""),
         BranchLine(FALSE, TRUE, <<"tags">>, "") }

\* The directories above a path: parent_path() taken until it is empty.
Ancestors(path) == { SubSeq(path, 1, k) : k \in 1 .. (Len(path) - 1) }

\* One turn of the loop of load_branches: a comment or a line without
\* prefix or name is passed over; find_branch registers the name and gives
\* back a branch, the one given or the one known by that name; a prefix
\* already in the table is an error; otherwise the branch is in the table,
\* and each prefix above its own that is in the table and each other branch
\* of the same name is an error.
load_branch_line(l, line) ==
  IF line.comment THEN l
  ELSE IF line.prefix = <<>> \/ line.name = "" THEN l
  ELSE IF line.prefix \in DOMAIN l.branches
  THEN [l EXCEPT !.errors = @ + 1]
  ELSE [l EXCEPT
         !.branches = [p \in DOMAIN @ \cup {line.prefix} |->
                         IF p = line.prefix
                         THEN [name |-> line.name, is_tag |-> line.is_tag]
                         ELSE @[p]],
         !.errors = @ + Cardinality(Ancestors(line.prefix)
                                     \cap DOMAIN l.branches)
                      + Cardinality({ p \in DOMAIN l.branches :
                                        l.branches[p].name = line.name })]

InitBranches ==
  /\ profile = "branches"
  /\ heap = NoHeap
  /\ opts = [cutoff |-> -1, start |-> -1, collect |-> 0]
  /\ dump = <<>>
  /\ pc = "done"
  /\ pos = 1
  /\ pre = InitConverter
  /\ skp = InitConverter
  /\ pipe = NoPipe
  /\ rd = NoReader
  /\ \E n \in 0..MaxLines : \E file \in [1..n -> BranchLines] :
       ld = [file |-> file, next |-> 1, errors |-> 0,
             branches |-> [p \in {} |-> p]]

NotLoader == <<profile, opts, dump, pc, pos, pre, skp, pipe, rd, heap>>

\* load_branches, one turn of its loop.
load_branches ==
  /\ profile = "branches"
  /\ ld.next <= Len(ld.file)
  /\ ld' = [load_branch_line(ld, ld.file[ld.next]) EXCEPT !.next = @ + 1]
  /\ UNCHANGED NotLoader

SpecBranches == InitBranches /\ [][load_branches]_vars

\* A line of the modules file: a comment, a section "[name]", a mapping
\* "source: target", or anything else.  A path is written with or without
\* a closing '/'; the target "." is written as the path <<>> with dot set.
ModuleLine(kind, name, source, target, slash, dot) ==
  [kind |-> kind, name |-> name, source |-> source, target |-> target,
   slash |-> slash, dot |-> dot]

Ignore == "<ignore>"

ModuleLines ==
  { ModuleLine("comment", "", <<>>, <<>>, FALSE, FALSE),
    ModuleLine("section", "sub", <<>>, <<>>, FALSE, FALSE),
    ModuleLine("section", "lib", <<>>, <<>>, FALSE, FALSE),
    ModuleLine("section", Ignore, <<>>, <<>>, FALSE, FALSE),
    ModuleLine("mapping", "", <<"trunk", "sub">>, <<>>, FALSE, TRUE),
    ModuleLine("mapping", "", <<"trunk", "sub">>, <<"src">>, TRUE, FALSE),
    ModuleLine("mapping", "", <<"trunk", "lib">>, <<"lib">>, FALSE, FALSE),
    ModuleLine("mapping", "", <<Ignore>>, <<"lib">>, FALSE, FALSE) }

\* Submodule::Submodule: a repository of its own, with a branch for every
\* name in the parent's branches_by_name; the new branches carry the name
\* and the prefix, and is_tag stays false.
Submodule(pathname) ==
  [pathname |-> pathname,
   repository |->
     [branches          |-> [b \in branches_by_name |->
                               [commit |-> 0, next_commit |-> <<>>]],
      commit_queue      |-> <<>>,
      branches_modified |-> 0,
      commits           |-> <<>>,
      refs              |-> {}]]

\* One turn of the loop of load_modules.  A section other than [<ignore>]
\* makes a new Submodule the current one; a mapping under a current module
\* whose source is not <ignore> is inserted under its source path, the
\* closing '/' dropped, and an insert that finds the path taken prints
\* "Failed to load from" and changes nothing.  A module is known by its
\* place in submodules_list.  (The target "." becomes the empty path, and
\* the test for its closing '/' then reads in front of the empty string;
\* whatever it reads, the target stays empty.)
load_module_line(l, line) ==
  IF line.kind = "comment" THEN l
  ELSE IF line.kind = "section"
  THEN IF line.name # Ignore
       THEN [l EXCEPT !.curr_module = <<Len(l.submodules_list) + 1>>,
                      !.submodules_list = Append(@, Submodule(line.name))]
       ELSE l
  ELSE IF line.kind = "mapping"
  THEN IF l.curr_module # <<>> /\ line.source # <<Ignore>>
       THEN IF line.source \in DOMAIN l.submodules_map
            THEN [l EXCEPT !.failed = @ + 1]
            ELSE [l EXCEPT !.submodules_map =
                    [s \in DOMAIN @ \cup {line.source} |->
                       IF s = line.source
                       THEN [target |-> line.target,
                             module |-> l.curr_module[1]]
                       ELSE @[s]]]
       ELSE l
  ELSE l

\* load_modules before its loop: no error, the tables cleared.
OpenModules(file) ==
  [file |-> file, next |-> 1, errors |-> 0, failed |-> 0,
   curr_module |-> <<>>, submodules_list |-> <<>>,
   submodules_map |-> [s \in {} |-> s]]

InitModules ==
  /\ profile = "modules"
  /\ heap = NoHeap
  /\ opts = [cutoff |-> -1, start |-> -1, collect |-> 0]
  /\ dump = <<>>
  /\ pc = "done"
  /\ pos = 1
  /\ pre = InitConverter
  /\ skp = InitConverter
  /\ pipe = NoPipe
  /\ rd = NoReader
  /\ \E n \in 0..MaxLines : \E file \in [1..n -> ModuleLines] :
       ld = OpenModules(file)

\* load_modules, one turn of its loop.
load_modules ==
  /\ profile = "modules"
  /\ ld.next <= Len(ld.file)
  /\ ld' = [load_module_line(ld, ld.file[ld.next]) EXCEPT !.next = @ + 1]
  /\ UNCHANGED NotLoader

SpecModules == InitModules /\ [][load_modules]_vars

-----------------------------------------------------------------------------
(* The submodules.  The converter writes every change to its own           *)
(* repository and then, when the path inside the branch lies in a mapped   *)
(* directory, to the repository of the Submodule.  The profile "fanout"    *)
(* follows the pass made with --skip; ld holds submodules_map and          *)
(* submodules_list with the repositories.                                  *)

RECURSIVE LoadFrom(_)
\* load_modules, all turns of its loop.
LoadFrom(l) ==
  IF l.next > Len(l.file) THEN l
  ELSE LoadFrom([load_module_line(l, l.file[l.next]) EXCEPT !.next = @ + 1])

\* Two modules files: the directories named from the root of the dump, and
\* named from the prefix of the branch.
ModulesFiles ==
  { << ModuleLine("section", "sub", <<>>, <<>>, FALSE, FALSE),
       ModuleLine("mapping", "", <<"trunk", "sub">>, <<>>, FALSE, TRUE),
       ModuleLine("mapping", "", <<"trunk", "lib">>, <<"src">>, FALSE, FALSE) >>,
    << ModuleLine("section", "sub", <<>>, <<>>, FALSE, FALSE),
       ModuleLine("mapping", "", <<"sub">>, <<>>, FALSE, TRUE),
       ModuleLine("mapping", "", <<"lib">>, <<"src">>, FALSE, FALSE) >> }

RECURSIVE find_submodule_from(_, _, _)
\* The loop of find_submodule: the nearest directory of pathname that is
\* mapped, with the rest of pathname put after its target.
find_submodule_from(l, pathname, dirname) ==
  IF dirname = <<>> THEN <<>>
  ELSE IF dirname \in DOMAIN l.submodules_map
  THEN <<[path |-> l.submodules_map[dirname].target
                     \o SubSeq(pathname, Len(dirname) + 1, Len(pathname)),
          module |-> l.submodules_map[dirname].module]>>
  ELSE find_submodule_from(l, pathname, parent_path(dirname))

\* A variant of find_submodule that finds nothing.
find_submodule_Never(l, pathname) == <<>>

\* find_submodule: <<>> when no Submodule is found, else the path in the
\* Submodule and the Submodule.
find_submodule(l, pathname) ==
  IF pathname \in DOMAIN l.submodules_map
  THEN <<[path |-> l.submodules_map[pathname].target,
          module |-> l.submodules_map[pathname].module]>>
  ELSE find_submodule_from(l, pathname, pathname)

\* The Repository of a Submodule seen with the commit information of the
\* converter, which set_commit_info stamps on its commits too.
InRepository(c, repo) ==
  [c EXCEPT !.branches = repo.branches,
            !.commit_queue = repo.commit_queue,
            !.branches_modified = repo.branches_modified,
            !.commits = repo.commits,
            !.refs = repo.refs]

RepositoryOf(v) ==
  [branches |-> v.branches, commit_queue |-> v.commit_queue,
   branches_modified |-> v.branches_modified, commits |-> v.commits,
   refs |-> v.refs]

\* update_object with a related_branch: the change goes to the flat history
\* of the converter under the path it has in the Submodule, and to the
\* branch of that name in the Submodule's repository, under the same path.
\* The result is the converter and the tables.
update_object_related(c, l, m, pathname, obj, from_branch, related_branch) ==
  LET h1   == get_commit(c, HistoryName, <<>>)
      hc   == h1.branches[HistoryName].next_commit[1]
      hc2  == IF obj # <<>> THEN Commit_update(hc, pathname, obj[1])
              ELSE Commit_remove(hc, pathname)
      c1   == [h1 EXCEPT !.branches[HistoryName].next_commit = <<hc2>>]
  IN
  IF has_tree(hc) /\ CastFails(hc.tree[1], pathname)
  THEN [c |-> [h1 EXCEPT !.status = "crashed"], l |-> l]
  ELSE
    LET v   == InRepository(c1, l.submodules_list[m].repository)
        v2  == get_commit(v, related_branch, from_branch)
        bc  == v2.branches[related_branch].next_commit[1]
        bc2 == IF obj # <<>> THEN Commit_update(bc, pathname, obj[1])
               ELSE Commit_remove(bc, pathname)
    IN IF has_tree(bc) /\ CastFails(bc.tree[1], pathname)
       THEN [c |-> [c1 EXCEPT !.status = "crashed"],
             l |-> [l EXCEPT !.submodules_list[m].repository = RepositoryOf(v2)]]
       ELSE [c |-> c1,
             l |-> [l EXCEPT !.submodules_list[m].repository =
                      RepositoryOf([v2 EXCEPT
                        !.branches[related_branch].next_commit = <<bc2>>])]]

\* add_file with a related_branch; the branch a copy comes from is then
\* the related branch itself.
add_file_related(c, l, m, pathname, related_branch, node) ==
  IF node.has_copy_from
  THEN LET from_path == node.copy_from_path
           past_tree == get_past_tree(c, node.copy_from_rev)
       IN IF past_tree = <<>> THEN [c |-> [c EXCEPT !.status = "error"], l |-> l]
          ELSE IF CastFails(past_tree[1], from_path)
          THEN [c |-> [c EXCEPT !.status = "crashed"], l |-> l]
          ELSE LET obj == lookup(past_tree[1], from_path) IN
               IF obj = <<>> THEN [c |-> [c EXCEPT !.status = "crashed"], l |-> l]
               ELSE update_object_related(c, l, m, pathname,
                      <<copy_to_name(obj[1], filename(pathname))>>,
                      <<related_branch>>, related_branch)
  ELSE IF ~(node.action = "change" /\ ~node.has_text)
  THEN update_object_related(c, l, m, pathname,
         <<create_blob(filename(pathname),
                       IF node.has_text THEN node.text ELSE 0)>>,
         <<>>, related_branch)
  ELSE [c |-> c, l |-> l]

\* add_directory with a related_branch.
add_directory_related(c, l, m, pathname, related_branch, node) ==
  LET from_path == node.copy_from_path
      past_tree == get_past_tree(c, node.copy_from_rev)
  IN IF past_tree = <<>> THEN [c |-> [c EXCEPT !.status = "error"], l |-> l]
     ELSE IF CastFails(past_tree[1], from_path)
     THEN [c |-> [c EXCEPT !.status = "crashed"], l |-> l]
     ELSE LET obj == lookup(past_tree[1], from_path) IN
          IF obj = <<>> THEN [c |-> c, l |-> l]
          ELSE update_object_related(c, l, m, pathname,
                 <<copy_to_name(obj[1], filename(pathname))>>,
                 <<related_branch>>, related_branch)

\* process_change on the repository of a Submodule.
process_change_related(c, l, m, pathname, related_branch, node) ==
  IF node.kind = "file" /\ node.action \in {"add", "change"}
  THEN add_file_related(c, l, m, pathname, related_branch, node)
  ELSE IF node.action = "delete"
  THEN update_object_related(c, l, m, pathname, <<>>, <<>>, related_branch)
  ELSE IF node.has_copy_from /\ node.kind = "dir" /\ node.action = "add"
  THEN add_directory_related(c, l, m, pathname, related_branch, node)
  ELSE [c |-> c, l |-> l]

\* Whether process_change on the converter's own repository comes to
\* update_object for the node and returns from it.
Updates(c, node) ==
  IF node.kind = "file" /\ node.action \in {"add", "change"}
  THEN node.has_copy_from \/ ~(node.action = "change" /\ ~node.has_text)
  ELSE IF node.action = "delete" THEN TRUE
  ELSE IF node.has_copy_from /\ node.kind = "dir" /\ node.action = "add"
  THEN LET past_tree == get_past_tree(c, node.copy_from_rev)
       IN lookup(past_tree[1], node.copy_from_path) # <<>>
  ELSE FALSE

\* The path of pathname in the branch it is routed to, as update_object
\* computes it.
subpath_of(pathname, branch) ==
  IF Len(pathname) = Len(Prefix(branch)) THEN pathname
  ELSE SubSeq(pathname, Len(Prefix(branch)) + 1, Len(pathname))

\* process_change on the converter's own repository, with the last part of
\* update_object: the path inside the branch is looked up in
\* submodules_map, and a change that is found there is made once more on
\* the Submodule.
process_change_modules(c, l, node) ==
  CHOOSE r \in
    { IF ~Running(c2) \/ ~Updates(c, node) \/ DOMAIN l.submodules_map = {}
      THEN [c |-> c2, l |-> l]
      ELSE LET branch == find_branch_by_path(node.path)[1]
               found  == find_submodule(l, subpath_of(node.path, branch))
           IN IF found = <<>> THEN [c |-> c2, l |-> l]
              ELSE process_change_related(c2, l, found[1].module, found[1].path,
                                          branch, node)
      : c2 \in {process_change(c, node)} } : TRUE

RECURSIVE WriteHeadsOf(_, _)
\* write_branches on the repository of a Submodule, none of whose branches
\* is a tag.
WriteHeadsOf(v, names) ==
  IF names = {} THEN v
  ELSE LET b == CHOOSE n \in names : TRUE
           w == IF v.branches[b].commit # 0 THEN Branch_update(v, b) ELSE v
       IN WriteHeadsOf(w, names \ {b})

RECURSIVE WriteSubmodules(_, _, _, _)
\* The loops over submodules_list in operator() and in finish: write of
\* every Submodule from the m-th on, and write_branches when heads is set
\* and, with modified set, only after a write that wrote something.
WriteSubmodules(c, l, m, how) ==
  IF m > Len(l.submodules_list) \/ ~Running(c) THEN [c |-> c, l |-> l]
  ELSE CHOOSE r \in
         { LET b == IF Running(w) /\ how.heads
                        /\ (how.modified => w.branches_modified > 0)
                    THEN WriteHeadsOf(w, branches_by_name) ELSE w
           IN WriteSubmodules([c EXCEPT !.status = w.status],
                              [l EXCEPT !.submodules_list[m].repository =
                                          RepositoryOf(b)],
                              m + 1, how)
           : w \in {Repository_write(
                      InRepository(c, l.submodules_list[m].repository),
                      c.last_rev)} } : TRUE

\* ConvertRepository::operator() with submodules.  The Submodules are
\* written after the converter's own repository and before the commit
\* information of the new revision is set.  (A value that is used more
\* than once is bound as the member of a set of one.)
Apply_modules(c, l, node, collect) ==
  IF node.path = <<>> THEN [c |-> c, l |-> l]
  ELSE LET c0 == [c EXCEPT !.rev = node.rev] IN
       IF c0.rev = c0.last_rev THEN process_change_modules(c0, l, node)
       ELSE CHOOSE r \in
              { IF ~Running(c1) THEN [c |-> c1, l |-> l]
                ELSE IF ~Running(s.c)
                THEN [c |-> [c1 EXCEPT !.status = s.c.status], l |-> s.l]
                ELSE process_change_modules(c1, s.l, node)
                : c1 \in {Boundary(c0, node, collect)},
                  s \in {WriteSubmodules(c0, l, 1,
                           [heads |-> collect # 0 /\ c0.rev % collect = 0,
                            modified |-> TRUE])} } : TRUE

\* ConvertRepository::finish with submodules.
finish_modules(c, l) ==
  LET w == Repository_write(c, c.last_rev) IN
  IF ~Running(w) THEN [c |-> w, l |-> l]
  ELSE LET s == WriteSubmodules(c, l, 1, [heads |-> TRUE, modified |-> FALSE])
       IN IF ~Running(s.c) THEN [c |-> [w EXCEPT !.status = s.c.status], l |-> s.l]
          ELSE [c |-> finish(c), l |-> s.l]

InitFanout ==
  /\ profile = "fanout"
  /\ heap = NoHeap
  /\ opts = [cutoff |-> -1, start |-> -1, collect |-> 0]
  /\ dump = <<>>
  /\ pc = "scan"
  /\ pos = 1
  /\ pre = InitConverter
  /\ skp = InitConverter
  /\ pipe = NoPipe
  /\ rd = NoReader
  /\ \E file \in ModulesFiles : ld = LoadFrom(OpenModules(file))

\* The apply loop reads the next node and hands it to the converter.
ConvertModules ==
  /\ pc = "convert"
  /\ pos <= Len(dump)
  /\ ~Cut(dump[pos])
  /\ \E r \in { IF Running(skp) /\ Started(dump[pos])
                 THEN Apply_modules(skp, ld, dump[pos], opts.collect)
                 ELSE [c |-> skp, l |-> ld] } :
       skp' = r.c /\ ld' = r.l
  /\ pos' = pos + 1
  /\ UNCHANGED <<profile, opts, dump, pc, pre, pipe, rd, heap>>

\* The apply loop ends: converter.finish().
FinishModules ==
  /\ pc = "convert"
  /\ IF pos > Len(dump) THEN TRUE ELSE Cut(dump[pos])
  /\ \E r \in { IF Running(skp) THEN finish_modules(skp, ld)
                 ELSE [c |-> skp, l |-> ld] } :
       skp' = r.c /\ ld' = r.l
  /\ pc' = "done"
  /\ UNCHANGED <<profile, opts, dump, pos, pre, pipe, rd, heap>>

NextModules == ReadPrescan \/ EndPrescan \/ ConvertModules \/ FinishModules

SpecFanout == InitFanout /\ [][NextModules]_vars

-----------------------------------------------------------------------------
(* Trees as objects.  A Tree holds its entries as pointers, and a copy of  *)
(* a Tree shares the objects its entries point to.  heap is a record: the  *)
(* objects made so far (an object is known by its place in objs), the tree *)
(* of the commit the history branch holds (0: no commit), the tree of its  *)
(* pending commit (<<>>: no pending commit, <<0>>: a commit without tree), *)
(* and the trees stored in rev_trees, in the order they were stored.       *)

MaxOps == 4

HeapPaths ==
  { <<"a">>, <<"d", "a">>, <<"d", "e", "a">>, <<"c", "e", "a">> }

HeapDirs == { <<"d">>, <<"d", "e">> }

\* Repository::create_blob and create_tree, as objects.
NewBlob(name, oid) ==
  [type |-> "blob", name |-> name, oid |-> oid, entries |-> NoEntries]

NewTree(name) ==
  [type |-> "tree", name |-> name, oid |-> 0, entries |-> NoEntries]

\* Tree::Tree(const Tree&): the name and the map of entries are copied,
\* the objects the entries point to are not.
Tree_copy(objs, id) == Append(objs, objs[id])

\* Tree::copy_to_name: a copy under another name.
Heap_copy_to_name(objs, id, to_name) ==
  Append(objs, [objs[id] EXCEPT !.name = to_name])

SetEntry(objs, id, name, to) ==
  [objs EXCEPT ![id].entries =
     [n \in DOMAIN @ \cup {name} |-> IF n = name THEN to ELSE @[n]]]

DropEntry(objs, id, name) ==
  [objs EXCEPT ![id].entries = [n \in DOMAIN @ \ {name} |-> @[n]]]

RECURSIVE Tree_do_lookup(_, _, _)
\* Tree::do_lookup: 0 when the path leads nowhere.
Tree_do_lookup(objs, id, path) ==
  LET name == Head(path) IN
  IF name \notin DOMAIN objs[id].entries THEN 0
  ELSE IF Len(path) = 1 THEN objs[id].entries[name]
  ELSE Tree_do_lookup(objs, objs[id].entries[name], Tail(path))

RECURSIVE Tree_do_update_InPlace(_, _, _, _)
\* A variant of do_update that descends into the subtree it finds, without
\* a copy.
Tree_do_update_InPlace(objs, id, path, obj) ==
  LET name == Head(path) IN
  IF Len(path) = 1 THEN SetEntry(objs, id, name, obj)
  ELSE IF name \notin DOMAIN objs[id].entries
  THEN LET made == Append(objs, NewTree(name))
       IN Tree_do_update_InPlace(SetEntry(made, id, name, Len(made)),
                                 Len(made), Tail(path), obj)
  ELSE Tree_do_update_InPlace(objs, objs[id].entries[name], Tail(path), obj)

RECURSIVE Tree_do_update(_, _, _, _)
\* Tree::do_update on the Tree id: the last segment is set in the Tree
\* itself; before that the subtree is made if it is not there, or copied
\* and the copy put in its place, and the update goes on in it.  (The
\* paths used here never pass through a blob.)
Tree_do_update(objs, id, path, obj) ==
  LET name == Head(path) IN
  IF Len(path) = 1 THEN SetEntry(objs, id, name, obj)
  ELSE IF name \notin DOMAIN objs[id].entries
  THEN LET made == Append(objs, NewTree(name))
       IN Tree_do_update(SetEntry(made, id, name, Len(made)),
                         Len(made), Tail(path), obj)
  ELSE LET copied == Tree_copy(objs, objs[id].entries[name])
       IN Tree_do_update(SetEntry(copied, id, name, Len(copied)),
                         Len(copied), Tail(path), obj)

RECURSIVE Tree_do_remove_Leaves(_, _, _)
\* A variant of do_remove that leaves a subtree it has emptied in place.
Tree_do_remove_Leaves(objs, id, path) ==
  LET name == Head(path) IN
  IF name \notin DOMAIN objs[id].entries THEN objs
  ELSE IF Len(path) = 1 THEN DropEntry(objs, id, name)
  ELSE LET copied  == Tree_copy(objs, objs[id].entries[name])
           subtree == Len(copied)
       IN Tree_do_remove_Leaves(SetEntry(copied, id, name, subtree),
                                subtree, Tail(path))

RECURSIVE Tree_do_remove(_, _, _)
\* Tree::do_remove on the Tree id: the entry of the last segment is erased;
\* before that the subtree is copied, the copy put in its place, the
\* removal goes on in it, and a subtree left empty is erased.
Tree_do_remove(objs, id, path) ==
  LET name == Head(path) IN
  IF name \notin DOMAIN objs[id].entries THEN objs
  ELSE IF Len(path) = 1 THEN DropEntry(objs, id, name)
  ELSE LET copied  == Tree_copy(objs, objs[id].entries[name])
           subtree == Len(copied)
           removed == Tree_do_remove(SetEntry(copied, id, name, subtree),
                                     subtree, Tail(path))
       IN IF DOMAIN removed[subtree].entries = {}
          THEN DropEntry(removed, id, name) ELSE removed

\* Branch::get_commit on the history branch: the pending commit, made on
\* the first request as a clone of the commit the branch holds (the tree
\* copied right away), or without a tree.
Heap_get_commit(h) ==
  IF h.next # <<>> THEN h
  ELSE IF h.commit # 0
  THEN [h EXCEPT !.objs = Tree_copy(@, h.commit), !.next = <<Len(h.objs) + 1>>]
  ELSE [h EXCEPT !.next = <<0>>]

\* Commit::update on the pending commit.
Heap_Commit_update(h, path, obj) ==
  LET t == IF h.next[1] # 0 THEN h
           ELSE [h EXCEPT !.objs = Append(@, NewTree("")),
                          !.next = <<Len(h.objs) + 1>>]
  IN [t EXCEPT !.objs = Tree_do_update(@, t.next[1], path, obj)]

\* Commit::remove on the pending commit.
Heap_Commit_remove(h, path) ==
  IF h.next[1] = 0 THEN h
  ELSE LET objs == Tree_do_remove(h.objs, h.next[1], path)
       IN [h EXCEPT !.objs = objs,
                    !.next = IF DOMAIN objs[h.next[1]].entries = {}
                             THEN <<0>> ELSE @]

InitHeap ==
  /\ profile = "heap"
  /\ opts = [cutoff |-> -1, start |-> -1, collect |-> 0]
  /\ dump = <<>>
  /\ pc = "done"
  /\ pos = 1
  /\ pre = InitConverter
  /\ skp = InitConverter
  /\ pipe = NoPipe
  /\ rd = NoReader
  /\ ld = NoLoader
  /\ heap = [objs |-> <<>>, commit |-> 0, next |-> <<>>, rev_trees |-> <<>>,
             ops |-> 0]

NotHeap == <<profile, opts, dump, pc, pos, pre, skp, pipe, rd, ld>>

\* A file node with a text: add_file and the first part of update_object.
HeapAddFile ==
  /\ profile = "heap"
  /\ heap.ops < MaxOps
  /\ \E path \in HeapPaths :
       LET made == [heap EXCEPT !.objs = Append(@, NewBlob(filename(path), heap.ops + 1))]
           blob == Len(made.objs)
       IN heap' = [Heap_Commit_update(Heap_get_commit(made), path, blob)
                     EXCEPT !.ops = @ + 1]
  /\ UNCHANGED NotHeap

\* A delete node: delete_item and the first part of update_object.
HeapDelete ==
  /\ profile = "heap"
  /\ heap.ops < MaxOps
  /\ \E path \in HeapPaths \cup HeapDirs :
       heap' = [Heap_Commit_remove(Heap_get_commit(heap), path)
                  EXCEPT !.ops = @ + 1]
  /\ UNCHANGED NotHeap

\* A directory add with copy-from: add_directory takes the subtree from a
\* tree of rev_trees and update_object puts its copy at "c".
HeapAddDirectory ==
  /\ profile = "heap"
  /\ heap.ops < MaxOps
  /\ \E k \in DOMAIN heap.rev_trees : \E from_path \in HeapDirs :
       LET obj == Tree_do_lookup(heap.objs, heap.rev_trees[k], from_path) IN
       /\ obj # 0
       /\ LET made == [heap EXCEPT !.objs = Heap_copy_to_name(@, obj, "c")]
          IN heap' = [Heap_Commit_update(Heap_get_commit(made), <<"c">>,
                                         Len(made.objs))
                        EXCEPT !.ops = @ + 1]
  /\ UNCHANGED NotHeap

\* The revision ends: Repository::write makes the pending commit the
\* commit of the branch, or deletes the branch when the commit has no
\* tree, and operator() stores the tree of the commit in rev_trees.
HeapWrite ==
  /\ profile = "heap"
  /\ heap.ops < MaxOps
  /\ heap.next # <<>>
  /\ heap' = IF heap.next[1] # 0
             THEN [heap EXCEPT !.commit = heap.next[1],
                               !.next = <<>>,
                               !.rev_trees = Append(@, heap.next[1]),
                               !.ops = @ + 1]
             ELSE [heap EXCEPT !.commit = 0, !.next = <<>>, !.ops = @ + 1]
  /\ UNCHANGED NotHeap

NextHeap == HeapAddFile \/ HeapDelete \/ HeapAddDirectory \/ HeapWrite

SpecHeap == InitHeap /\ [][NextHeap]_vars

-----------------------------------------------------------------------------
(* Properties.                                                             *)

Runs == {pre, skp}

LastLine(message) == message[Len(message)]

\* C1: every commit written for revision r carries a message whose last
\* line is "SVN-Revision: r", whatever the revision's author and log are.
C1_MessageNamesRevision ==
  \A run \in Runs : \A i \in DOMAIN run.commits :
     /\ run.commits[i].message # <<>>
     /\ LastLine(run.commits[i].message)
          = "SVN-Revision: " \o ToString(run.commits[i].flushed_at)

\* The node the apply loop handed to the converter last.
Applied == dump[pos - 1]

JustApplied(run) == pc = "convert" /\ pos > 1 /\ Running(run)

PendingTree(run, b) == run.branches[b].next_commit[1].tree[1]

\* The path of pathname inside the tree of its branch.
BranchPath(pathname) ==
  SubSeq(pathname, Len(Prefix(find_branch_by_path(pathname)[1])) + 1, Len(pathname))

IsFileCopy(node) ==
  node.kind = "file" /\ node.action \in {"add", "change"} /\ node.has_copy_from

IsDirCopy(node) ==
  node.kind = "dir" /\ node.action = "add" /\ node.has_copy_from

\* The object at from_path in the snapshot get_past_tree chooses for the
\* copy-from revision of node: <<>> when there is none.
CopySource(run, node) ==
  LET past_tree == get_past_tree(run, node.copy_from_rev) IN
  IF past_tree = <<>> THEN <<>> ELSE lookup(past_tree[1], node.copy_from_path)

\* C2: after a file add/change with copy-from is applied, the blob at the
\* destination, in the historical tree and in the pending commit of the
\* destination branch, has the identifier of the blob at the source path
\* in the chosen snapshot, and the basename of the destination as name.
C2_FileCopyKeepsBlobId ==
  \A run \in Runs :
    (JustApplied(run) /\ IsFileCopy(Applied)) =>
       LET src == CopySource(run, Applied)
           dst == lookup(PendingTree(run, HistoryName), Applied.path)
           bdst == lookup(PendingTree(run, find_branch_by_path(Applied.path)[1]),
                          BranchPath(Applied.path))
       IN /\ src # <<>> /\ dst # <<>> /\ bdst # <<>>
          /\ is_blob(dst[1]) /\ is_blob(bdst[1])
          /\ dst[1].oid = src[1].oid /\ bdst[1].oid = src[1].oid
          /\ dst[1].name = filename(Applied.path)
          /\ bdst[1].name = filename(Applied.path)

\* A file copy has been applied whose source has another blob in the
\* current tree than in the snapshot.
C2_Witness ==
  /\ JustApplied(pre) /\ JustApplied(skp) /\ IsFileCopy(Applied)
  /\ LET now == lookup(PendingTree(skp, HistoryName), Applied.copy_from_path)
         dst == lookup(PendingTree(skp, HistoryName), Applied.path)
     IN now # <<>> /\ dst # <<>> /\ now[1].oid # dst[1].oid

\* C3: after a directory add with copy-from is applied and the source is
\* a subtree of the chosen snapshot, the subtree at the destination has
\* exactly the entries of the source subtree, with the same identifiers.
C3_DirCopyKeepsEntries ==
  \A run \in Runs :
    (JustApplied(run) /\ IsDirCopy(Applied)) =>
       LET src == CopySource(run, Applied) IN
       (src # <<>> /\ is_tree(src[1])) =>
          LET dst == lookup(PendingTree(run, HistoryName), Applied.path) IN
          /\ dst # <<>> /\ is_tree(dst[1])
          /\ dst[1].name = filename(Applied.path)
          /\ ObjectId(dst[1]).ents = ObjectId(src[1]).ents
          /\ DOMAIN dst[1].entries = DOMAIN src[1].entries

\* A directory copy has been applied whose source subtree differs from
\* the current tree at the source path.
C3_Witness ==
  /\ JustApplied(pre) /\ JustApplied(skp) /\ IsDirCopy(Applied)
  /\ LET src == CopySource(skp, Applied)
         now == lookup(PendingTree(skp, HistoryName), Applied.copy_from_path)
     IN /\ src # <<>> /\ is_tree(src[1]) /\ src[1].entries # NoEntries
        /\ now # <<>> /\ ObjectId(now[1]).ents # ObjectId(src[1]).ents

KeysAtMost(run, s) == { k \in DOMAIN run.rev_trees : k <= s }

\* The converter has passed the revision boundary of the applied node, so
\* that process_change ran on it.
Reached(run) == pc = "convert" /\ pos > 1 /\ run.last_rev = Applied.rev

\* C4: whenever the Cache holds a key that is at most copy_from_rev,
\* get_past_tree returns the snapshot stored under the greatest such key.
C4_GreatestKeyAtMost ==
  \A run \in Runs : \A s \in 0 .. MaxRevCache :
    KeysAtMost(run, s) # {} =>
       get_past_tree(run, s) = <<run.rev_trees[SetMax(KeysAtMost(run, s))]>>

\* A copy has been applied whose source revision lies below the latest
\* snapshot and has a snapshot of its own or an earlier one.
C4_Witness ==
  /\ JustApplied(skp) /\ Reached(skp) /\ IsFileCopy(Applied)
  /\ KeysAtMost(skp, Applied.copy_from_rev) # {}
  /\ \E k \in DOMAIN skp.rev_trees :
       /\ k > Applied.copy_from_rev
       /\ skp.rev_trees[k] # skp.rev_trees[SetMax(KeysAtMost(skp, Applied.copy_from_rev))]

\* C5, as stated: a copy-from lookup fails only when the Cache is empty.
C5_FailsOnlyWhenEmpty ==
  \A run \in Runs :
    (Reached(run) /\ Applied.has_copy_from /\ run.status = "error"
       /\ get_past_tree(run, Applied.copy_from_rev) = <<>>)
    => run.rev_trees = NoTrees

\* C5, amended: get_past_tree fails exactly when the Cache holds no key
\* that is at most copy_from_rev, whether the Cache is empty or not, and a
\* copy-from node whose lookup fails ends the run with an error.
C5_FailsIffNoKeyAtMost ==
  \A run \in Runs :
    /\ \A s \in 0 .. MaxRevCache :
         (get_past_tree(run, s) = <<>>) <=> (KeysAtMost(run, s) = {})
    /\ (Reached(run) /\ Applied.has_copy_from
          /\ KeysAtMost(run, Applied.copy_from_rev) = {})
       => run.status = "error"

\* A copy-from lookup has failed on a Cache that holds later snapshots.
C5_Witness ==
  /\ Reached(skp) /\ Applied.has_copy_from /\ skp.status = "error"
  /\ skp.rev_trees # NoTrees
  /\ KeysAtMost(skp, Applied.copy_from_rev) = {}

\* The prescan ended without errors, so that the apply pass ran after it.
PrescanPassed ==
  /\ pc # "scan"
  /\ pre.status # "exit1"
  /\ ~(pre.status = "error" /\ pre.last_rev = -1)

Max(a, b) == IF a > b THEN a ELSE b

\* C7, as stated: every Cache entry of the apply pass lies in the range
\* of a reservation that is still held.
C7_EntriesAreReserved ==
  (pc = "convert" /\ PrescanPassed) =>
    \A k \in DOMAIN pre.rev_trees :
      \E i \in DOMAIN pre.copy_from :
        /\ pre.copy_from[i][2] <= k
        /\ k < Max(pre.copy_from[i][1], pre.copy_from[i][2])

FlushedAt(run, k) == { i \in DOMAIN run.commits : run.commits[i].flushed_at = k }

\* C7, amended: every Cache entry (k, T) was inserted at the boundary that
\* closed revision k because the flush of k wrote a commit, and T is the
\* tree of the flat-history commit of that flush; reservations play no
\* part in the insertion: without pruning every flushed revision that a
\* boundary closed has its entry, and pruning only removes entries.
C7_EntriesAreFlushedTrees ==
  /\ \A run \in Runs : \A k \in DOMAIN run.rev_trees :
       /\ k < run.last_rev
       /\ \E i \in FlushedAt(run, k) :
            /\ run.commits[i].branch = HistoryName
            /\ run.commits[i].tree = run.rev_trees[k]
  /\ \A i \in DOMAIN skp.commits :
       skp.commits[i].flushed_at < skp.last_rev
         => skp.commits[i].flushed_at \in DOMAIN skp.rev_trees
  /\ PrescanPassed =>
       \A k \in DOMAIN pre.rev_trees :
         k \in DOMAIN skp.rev_trees /\ pre.rev_trees[k] = skp.rev_trees[k]

\* The Cache of the run after the prescan holds a snapshot while no
\* reservation is held at all.
C7_Witness ==
  /\ pc = "convert" /\ PrescanPassed /\ Running(pre)
  /\ pre.copy_from = <<>>
  /\ Cardinality(DOMAIN pre.rev_trees) >= 2

\* The branch table declares b a tag.
DeclaredTag(b) == \E t \in BranchTable : t.name = b /\ t.is_tag

Completed(run) == pc = "done" /\ run.status = "done"

\* The references refs/<kind>/<name> of the store of run.
RefsNamed(run, kind, name) ==
  { r \in run.refs : r.kind = kind /\ r.name = name /\ r.deleted_r = -1 }

\* The nodes the apply loop handed over whose path lies in branch b.
NodesOn(b) ==
  { i \in 1 .. (pos - 1) : find_branch_by_path(dump[i].path) = <<b>> }

\* The commits of branch b that flushes before revision r wrote.
WrittenBefore(run, b, r) ==
  { i \in DOMAIN run.commits :
      run.commits[i].branch = b /\ run.commits[i].flushed_at < r }

\* C8: when the last thing a dump does to a branch that has a commit is
\* to delete the directory of its prefix in revision r, then at completion
\* refs/tags/<name>__deleted_r<r> points to the last commit written for
\* the branch before r, and no reference named <name> exists.
C8_DeletedBranchIsTagged ==
  \A run \in Runs : \A b \in branches_by_name :
    (/\ Completed(run)
     /\ NodesOn(b) # {}
     /\ dump[SetMax(NodesOn(b))].action = "delete"
     /\ dump[SetMax(NodesOn(b))].path = Prefix(b)
     /\ WrittenBefore(run, b, dump[SetMax(NodesOn(b))].rev) # {})
    => LET r == dump[SetMax(NodesOn(b))].rev IN
       /\ \E ref \in run.refs :
            /\ ref.kind = "tags" /\ ref.name = b /\ ref.deleted_r = r
            /\ ref.target = SetMax(WrittenBefore(run, b, r))
       /\ RefsNamed(run, "tags", b) = {}
       /\ RefsNamed(run, "heads", b) = {}

\* The commits written for branch b.
CommitsOf(run, b) == { i \in DOMAIN run.commits : run.commits[i].branch = b }

\* C9, as stated: at completion every branch declared is_tag has
\* refs/tags/<name> and has no refs/heads/<name>.
C9_EveryTagHasItsRef ==
  \A run \in Runs : \A b \in branches_by_name :
    (Completed(run) /\ DeclaredTag(b)) =>
       /\ RefsNamed(run, "tags", b) # {}
       /\ RefsNamed(run, "heads", b) = {}

\* C9, amended: at completion a branch declared is_tag that holds a
\* commit has refs/tags/<name>, pointing to that commit; a branch declared
\* is_tag never has refs/heads/<name>, and one that received no commit has
\* no reference at all.
C9_TagWithCommitHasItsRef ==
  \A run \in Runs : \A b \in branches_by_name :
    DeclaredTag(b) =>
       /\ RefsNamed(run, "heads", b) = {}
       /\ (Completed(run) /\ run.branches[b].commit # 0) =>
             \E ref \in RefsNamed(run, "tags", b) :
                ref.target = run.branches[b].commit
       /\ (Completed(run) /\ CommitsOf(run, b) = {}) =>
             RefsNamed(run, "tags", b) = {}

\* Both runs completed and the tag branch holds a commit.
C9_Witness ==
  /\ Completed(pre) /\ Completed(skp)
  /\ \E b \in branches_by_name :
       /\ DeclaredTag(b) /\ skp.branches[b].commit # 0
       /\ RefsNamed(skp, "tags", b) # {}

\* The run with --skip after the first k nodes of the dump.
RECURSIVE Replay(_)
Replay(k) == IF k = 0 THEN InitConverter ELSE RunApply(Replay(k - 1), dump[k])

\* The revisions of the applied nodes after which branch b held a pending
\* commit: the revisions that touched b.
Touching(b) ==
  { dump[k].rev : k \in { i \in 1 .. (pos - 1) :
                            Replay(i).branches[b].next_commit # <<>> } }

RefKind(b) == IF b = HistoryName \/ DeclaredTag(b) THEN "tags" ELSE "heads"

\* C10: at completion nothing is pending, and the reference of every
\* branch that holds a commit points to that commit, which the flush of
\* the last revision that touched the branch wrote.
C10_RefsPointToLastTouch ==
  \A run \in Runs :
    Completed(run) =>
      /\ run.commit_queue = <<>>
      /\ \A b \in BranchNames :
           /\ run.branches[b].next_commit = <<>>
           /\ run.branches[b].commit # 0 =>
                /\ Touching(b) # {}
                /\ run.commits[run.branches[b].commit].branch = b
                /\ run.commits[run.branches[b].commit].flushed_at
                     = SetMax(Touching(b))
                /\ \E ref \in RefsNamed(run, RefKind(b), b) :
                     ref.target = run.branches[b].commit

\* Both runs completed, and the last revision added a second commit to a
\* branch.
C10_Witness ==
  /\ Completed(pre) /\ Completed(skp)
  /\ \E b \in branches_by_name :
       /\ skp.branches[b].commit # 0
       /\ skp.commits[skp.branches[b].commit].parent # 0
       /\ skp.commits[skp.branches[b].commit].flushed_at = skp.last_rev
       /\ RefsNamed(skp, RefKind(b), b) # {}

\* The dump of scenario S1 has been converted: r1 adds the file trunk/a,
\* r2 changes it, r3 deletes it.
ScenarioS1Done ==
  /\ pc = "done" /\ pos = 4 /\ Len(dump) = 3
  /\ \A k \in 1 .. 3 : dump[k].rev = k /\ dump[k].kind = "file" /\ dump[k].path = TrunkA
  /\ dump[1].action = "add" /\ dump[2].action = "change" /\ dump[3].action = "delete"

\* C11: with no branch table loaded, the dump of S1 completes and leaves
\* exactly three commits on branch master, one per revision, whose
\* messages end in SVN-Revision: 1, 2 and 3, the last with an empty tree.
C11_ImplicitMasterGetsThreeCommits ==
  \A run \in Runs :
    (BranchTable = {} /\ ScenarioS1Done) =>
       /\ run.status = "done"
       /\ Cardinality(CommitsOf(run, "master")) = 3
       /\ \A r \in 1 .. 3 :
            \E i \in CommitsOf(run, "master") :
               /\ run.commits[i].flushed_at = r
               /\ LastLine(run.commits[i].message) = "SVN-Revision: " \o ToString(r)
               /\ r = 3 => run.commits[i].tree.entries = NoEntries

\* The node is a file add/change, a deletion, or a directory add with
\* copy-from.
Mutating(node) ==
  \/ node.kind = "file" /\ node.action \in {"add", "change"}
  \/ node.action = "delete"
  \/ node.kind = "dir" /\ node.action = "add" /\ node.has_copy_from

\* Revision r of the dump holds no mutating node.
Idle(r) == \A k \in DOMAIN dump : dump[k].rev = r => ~Mutating(dump[k])

\* The step hands run a node of another revision than last_rev, or
\* finishes it: run flushes last_rev.
Flushes(run) ==
  /\ pc = "convert" /\ pc' \in {"convert", "done"} /\ Running(run)
  /\ pos' > pos => dump[pos].rev # run.last_rev

\* Between old and new no commit was written and no branch moved.
NothingWritten(old, new) ==
  /\ new.commits = old.commits
  /\ \A b \in BranchNames : new.branches[b].commit = old.branches[b].commit
  /\ { r \in new.refs : r.deleted_r >= 0 } = { r \in old.refs : r.deleted_r >= 0 }

\* C12: the flush that closes a revision without any mutating node writes
\* no commit on any branch, flat-history included, and moves no branch.
C12_IdleRevisionWritesNothing ==
  [][/\ (Flushes(pre) /\ Idle(pre.last_rev)) => NothingWritten(pre, pre')
     /\ (Flushes(skp) /\ Idle(skp.last_rev)) => NothingWritten(skp, skp')]_vars

\* A revision that only adds a directory has been closed in both runs,
\* after an earlier revision was committed.
C12_Witness ==
  /\ pc = "convert" /\ Running(pre) /\ Running(skp)
  /\ skp.commits # <<>>
  /\ \E k \in 1 .. (pos - 1) :
       /\ dump[k].rev > skp.commits[1].flushed_at
       /\ dump[k].rev < skp.last_rev /\ dump[k].rev < pre.last_rev
       /\ Idle(dump[k].rev)

\* No prefix of the branch table is an ancestor of pathname or pathname
\* itself.
NoBranchFor(pathname) ==
  \A b \in BranchTable :
    ~(Len(b.prefix) <= Len(pathname) /\ SubSeq(pathname, 1, Len(b.prefix)) = b.prefix)

\* The author of the node's revision is not in the loaded author table.
UnknownAuthor(node) ==
  DOMAIN AuthorsTable # {} /\ node.rev_author \notin DOMAIN AuthorsTable

\* The node's path, or its copy-from path, maps to no branch of the loaded
\* branch table (for the nodes the prescan looks up).
Unmapped(node) ==
  /\ BranchTable # {}
  /\ node.action = "delete" \/ node.kind = "file" \/ node.has_copy_from
  /\ \/ NoBranchFor(node.path)
     \/ node.has_copy_from /\ NoBranchFor(node.copy_from_path)

\* The nodes the prescan has been handed.
Prescanned == { k \in DOMAIN dump : ~Cut(dump[k]) /\ Started(dump[k]) }

\* C19: when the prescan met an unknown author or an unmapped path, the
\* program exits with code 1 (by return or through the exception handler
\* of main) before the apply pass: nothing is ever written.
C19_PrescanErrorWritesNothing ==
  (pc # "scan"
     /\ \E k \in Prescanned : UnknownAuthor(dump[k]) \/ Unmapped(dump[k]))
  => /\ pre.status \in {"exit1", "error"}
     /\ pre.commits = <<>>
     /\ pre.refs = {}
     /\ pre.last_rev = -1

\* The prescan has stopped the program on an unknown author, on a dump
\* the apply pass alone writes commits for.
C19_Witness ==
  /\ pc = "done" /\ pre.status = "exit1" /\ pre.errors > 0
  /\ skp.commits # <<>>
  /\ \E k \in Prescanned : UnknownAuthor(dump[k])

\* C20: during the prescan every node with an unmapped path is counted as
\* an error and the scan goes on with the next node.
C20_UnmappedPathIsCounted ==
  pc = "scan" =>
    /\ Running(pre)
    /\ pre.errors >= Cardinality({ k \in Prescanned : Unmapped(dump[k]) })

-----------------------------------------------------------------------------
(* The pipeline.                                                           *)

IsPrefix(s, t) == Len(s) <= Len(t) /\ \A i \in 1..Len(s) : s[i] = t[i]

\* C13: the nodes the consumer pops and applies are the nodes the producer
\* pushed, in the same order, none lost and none twice, and pop reports
\* the end of the stream only after every pushed node has been applied.
C13_AppliedIsWhatWasPushed ==
  /\ IsPrefix(pipe.applied, pipe.pushed)
  /\ pipe.at.consumer = "end_of_stream" => pipe.applied = pipe.pushed

C15_QueueIsBounded == Len(pipe.the_queue) < PipeLen

-----------------------------------------------------------------------------
(* The dump reader.                                                        *)

\* The paths of the node records of the dump, in file order.
RECURSIVE NodePathsFrom(_, _)
NodePathsFrom(records, i) ==
  IF i > Len(records) THEN <<>>
  ELSE (IF IsRevision(records[i]) THEN <<>> ELSE <<PathOf(i)>>)
       \o NodePathsFrom(records, i + 1)

PathsOf(nodes) == [k \in 1..Len(nodes) |-> nodes[k].path]

\* C16: read_next returns true exactly for the records with a Node-path,
\* one after the other whatever state the record before ended in, records
\* of a revision alone are passed over, and it returns false only when no
\* node record is left unread.
C16_YieldsExactlyTheNodeRecords ==
  \A p \in 1..rd.pass :
    /\ IsPrefix(PathsOf(rd.yielded[p]), NodePathsFrom(rd.records, 1))
    /\ (p < rd.pass \/ rd.result = "false")
         => PathsOf(rd.yielded[p]) = NodePathsFrom(rd.records, 1)

\* A pass has ended with false after nodes whose records ended in
\* STATE_TAGS, in STATE_PROPS and in STATE_BODY.
C16_Witness ==
  /\ rd.result = "false"
  /\ \A kind \in {"node_delete", "node_copy", "node_text"} :
       \E k \in 1..Len(rd.yielded[rd.pass]) :
         rd.records[rd.yielded[rd.pass][k].path[2]] = kind

\* C17: with verification on, a text whose MD5 is not the one its record
\* announces makes read_next fail; the node is never given to the caller.
C17_MismatchIsNeverYielded ==
  rd.verify =>
    \A k \in 1..Len(rd.yielded[rd.pass]) :
      rd.records[rd.yielded[rd.pass][k].path[2]]
        \notin {"node_text_bad", "node_empty_bad"}

\* C18: after rewind the second pass is given the same nodes as the first,
\* with the same paths, kinds, actions, copy-from fields and txn indices
\* and the same revision number, author, date and log.
C18_SecondPassYieldsTheSame ==
  rd.pass = 2 =>
    /\ IsPrefix(rd.yielded[2], rd.yielded[1])
    /\ rd.result = "false" => rd.yielded[2] = rd.yielded[1]

-----------------------------------------------------------------------------
(* Signatures, cutoff.                                                     *)

\* The svn:author of revision r of the dump.
AuthorOf(r) == dump[CHOOSE k \in DOMAIN dump : dump[k].rev = r].rev_author

\* The commits written by the flush of a revision whose author id is not
\* empty and has no entry in the authors table.
ByUnmappedAuthor(run) ==
  { i \in DOMAIN run.commits :
      /\ AuthorOf(run.commits[i].flushed_at) # ""
      /\ AuthorOf(run.commits[i].flushed_at) \notin DOMAIN AuthorsTable }

\* C21 as stated: the commits of a revision whose author id has no entry in
\* the authors table are signed with the raw id as name and an empty email.
C21_UnmappedAuthorHasEmptyEmail ==
  \A run \in Runs : \A i \in ByUnmappedAuthor(run) :
     /\ run.commits[i].signature.name = AuthorOf(run.commits[i].flushed_at)
     /\ run.commits[i].signature.email = ""

\* C21 as amended: the commits of a revision whose author id is not empty
\* and has no entry in the authors table are signed with the raw id as name
\* and the email unknown@unknown.org.
C21_UnmappedAuthorHasUnknownEmail ==
  \A run \in Runs : \A i \in ByUnmappedAuthor(run) :
     /\ run.commits[i].signature.name = AuthorOf(run.commits[i].flushed_at)
     /\ run.commits[i].signature.email = "unknown@unknown.org"

\* The run with --skip has written a commit for a revision of bob.
C21_Witness ==
  \E i \in ByUnmappedAuthor(skp) : AuthorOf(skp.commits[i].flushed_at) = "bob"

\* The convert command has ended in finish() under a --cutoff.
CutoffDone(run) == pc = "done" /\ opts.cutoff # -1 /\ run.status = "done"

\* The revision of the last node handed to the converter, -1 if none was.
LastHanded == IF pos > 1 THEN dump[pos - 1].rev ELSE -1

\* C22 as stated: --cutoff N is an inclusive bound: the nodes of every
\* revision up to and including N are applied and flushed, none of a later
\* revision is.
C22_CutoffIsInclusive ==
  \A run \in Runs :
    (CutoffDone(run) /\ \E k \in DOMAIN dump : dump[k].rev = opts.cutoff)
      => run.last_rev = opts.cutoff

\* C22 as amended: --cutoff N is an exclusive bound: every node of every
\* revision below N is handed to the converter and flushed by finish(), and
\* no node of revision N or of a later one is.
C22_CutoffIsExclusive ==
  \A run \in Runs :
    CutoffDone(run) =>
      /\ \A k \in DOMAIN dump :
           /\ dump[k].rev < opts.cutoff => k < pos
           /\ dump[k].rev >= opts.cutoff => k >= pos
      /\ run.last_rev = LastHanded
      /\ \A i \in DOMAIN run.commits : run.commits[i].flushed_at < opts.cutoff
      /\ \A b \in DOMAIN run.branches : run.branches[b].next_commit = <<>>

\* The loop left at a node of revision cutoff after commits were written.
C22_Witness ==
  /\ CutoffDone(skp)
  /\ \E k \in DOMAIN dump : dump[k].rev = opts.cutoff
  /\ Len(skp.commits) >= 2

-----------------------------------------------------------------------------
(* The loaders.                                                            *)

Loaded == ld.next > Len(ld.file)

\* The lines of the branches file that describe a branch.
Descriptors ==
  { i \in DOMAIN ld.file :
      ~ld.file[i].comment /\ ld.file[i].prefix # <<>> /\ ld.file[i].name # "" }

IsProperAncestor(p, q) ==
  Len(p) < Len(q) /\ SubSeq(q, 1, Len(p)) = p

\* C23: if load_branches reports no error, no two descriptors of the file
\* have the same prefix or the same name, and no prefix lies above another
\* one, in whatever order the lines stand.
C23_NoErrorMeansNoClash ==
  (Loaded /\ ld.errors = 0) =>
    \A i, j \in Descriptors :
      i # j => /\ ld.file[i].prefix # ld.file[j].prefix
               /\ ld.file[i].name # ld.file[j].name
               /\ ~IsProperAncestor(ld.file[i].prefix, ld.file[j].prefix)

\* The mapping lines of the modules file that load_modules takes in: under
\* a section that names a module, with a source other than <ignore>.
Mappings ==
  { i \in DOMAIN ld.file :
      /\ ld.file[i].kind = "mapping"
      /\ ld.file[i].source # <<Ignore>>
      /\ \E j \in 1 .. (i - 1) :
           ld.file[j].kind = "section" /\ ld.file[j].name # Ignore }

\* C24: a modules file that maps the same source path more than once makes
\* load_modules return an error count that is not zero.
C24_RepeatedSourceIsAnError ==
  (Loaded /\ \E i, j \in Mappings :
                i # j /\ ld.file[i].source = ld.file[j].source)
    => ld.errors > 0

-----------------------------------------------------------------------------
(* The submodules.                                                         *)

\* The node just applied adds or changes a file with a text.
WritesFile(node) ==
  node.kind = "file" /\ node.action \in {"add", "change"}
    /\ ~node.has_copy_from /\ node.has_text

\* The pending commit of branch b in the repository holds obj at path.
Holds(repo, b, path, obj) ==
  /\ repo.branches[b].next_commit # <<>>
  /\ has_tree(repo.branches[b].next_commit[1])
  /\ lookup(repo.branches[b].next_commit[1].tree[1], path) = <<obj>>

\* The pending commit of branch b in the repository has nothing at path.
Lacks(repo, b, path) ==
  /\ repo.branches[b].next_commit # <<>>
  /\ LET commit == repo.branches[b].next_commit[1]
     IN has_tree(commit) => lookup(commit.tree[1], path) = <<>>

\* The node just applied is found in the Submodule of every source prefix
\* that lies above where: in the pending commit of the branch named as the
\* node's branch in the parent, at the target followed by the rest of
\* where.
FannedOut(node, where) ==
  \A s \in DOMAIN ld.submodules_map :
    IsProperAncestor(s, where) =>
      LET e    == ld.submodules_map[s]
          dest == e.target \o SubSeq(where, Len(s) + 1, Len(where))
          b    == find_branch_by_path(node.path)[1]
          repo == ld.submodules_list[e.module].repository
      IN /\ WritesFile(node) =>
              Holds(repo, b, dest, create_blob(filename(dest), node.text))
         /\ node.action = "delete" => Lacks(repo, b, dest)

FanoutApplied ==
  profile = "fanout" /\ JustApplied(skp)
    /\ (WritesFile(Applied) \/ Applied.action = "delete")

\* C25: a node whose path lies under a source prefix of the modules file
\* is applied to the store of the submodule at the rewritten path, on the
\* branch named as in the parent.
C25_FansOutByPath ==
  FanoutApplied => FannedOut(Applied, Applied.path)

\* C25, amended: a node whose path inside its branch lies under a source
\* prefix of the modules file is applied to the parent's branch at that
\* path and to the store of the submodule at the rewritten path, on the
\* branch named as in the parent.
C25_FansOutByPathInBranch ==
  FanoutApplied =>
    LET b == find_branch_by_path(Applied.path)[1] IN
    /\ FannedOut(Applied, subpath_of(Applied.path, b))
    /\ WritesFile(Applied) =>
         Holds(skp, b, subpath_of(Applied.path, b),
               create_blob(filename(Applied.path), Applied.text))

C25_Witness ==
  /\ FanoutApplied
  /\ Applied.path = TrunkSubX
  /\ Applied.action = "add"
  /\ <<"sub">> \in DOMAIN ld.submodules_map
  /\ Holds(skp, "master", <<"sub", "x">>, create_blob("x", Applied.text))
  /\ Holds(ld.submodules_list[1].repository, "master", <<"x">>,
           create_blob("x", Applied.text))

-----------------------------------------------------------------------------
(* Replace.                                                                *)

\* The node with its action read as add.
AsAdd(node) == [node EXCEPT !.action = "add"]

\* C26: handing a node with the action replace to the converter leaves it
\* as handing the same node with the action add does; both passes.
C26_ReplaceActsAsAdd ==
  [][(pc = "convert" /\ pc' = "convert" /\ dump[pos].action = "replace") =>
       /\ pre' = RunApply(pre, AsAdd(dump[pos]))
       /\ skp' = RunApply(skp, AsAdd(dump[pos]))]_vars

-----------------------------------------------------------------------------
(* A copy whose source is not there.                                       *)

\* The converter when operator() comes to process_change for the node.
Entered(c, node) ==
  LET c0 == [c EXCEPT !.rev = node.rev] IN
  IF c0.rev # c0.last_rev THEN Boundary(c0, node, opts.collect) ELSE c0

\* The snapshot chosen for the copy has nothing at the copy-from path.
Missing(c, node) ==
  LET past_tree == get_past_tree(c, node.copy_from_rev) IN
  /\ past_tree # <<>>
  /\ ~CastFails(past_tree[1], node.copy_from_path)
  /\ lookup(past_tree[1], node.copy_from_path) = <<>>

Skipped(c, after, node) ==
  (Running(c) /\ Started(node) /\ Running(Entered(c, node))
     /\ Missing(Entered(c, node), node))
    => after = Entered(c, node)

\* C27: a file node whose copy-from path is not in the chosen snapshot
\* changes neither the historical tree nor a branch commit, and the
\* converter goes on running; both passes.
C27_MissingCopySourceIsSkipped ==
  [][(pc = "convert" /\ pc' = "convert" /\ IsFileCopy(dump[pos])) =>
       /\ Skipped(pre, pre', dump[pos])
       /\ Skipped(skp, skp', dump[pos])]_vars

-----------------------------------------------------------------------------
(* The tree of a branch.                                                   *)

\* The commits written for the branches of the branches file.
BranchCommits(run) ==
  { i \in DOMAIN run.commits : run.commits[i].branch # HistoryName }

\* C28, its second part: the paths in the tree of a commit written for a
\* branch are taken from the prefix of the branch, so the prefix is not a
\* path of that tree, also after a node whose path is the prefix.
C28_PrefixIsNotInBranchTree ==
  \A run \in Runs : \A i \in BranchCommits(run) :
    LET tree   == run.commits[i].tree
        prefix == Prefix(run.commits[i].branch)
    IN CastFails(tree, prefix) \/ lookup(tree, prefix) = <<>>

\* The directory copy just applied starts branch b: its path is the prefix
\* of b, b holds no commit, and no earlier node of the revision went to b.
StartsBranch(run, b) ==
  /\ JustApplied(run) /\ Reached(run) /\ IsDirCopy(Applied)
  /\ b \in branches_by_name
  /\ Applied.path = Prefix(b)
  /\ run.branches[b].commit = 0
  /\ run.branches[b].next_commit # <<>>
  /\ \A k \in 1 .. (pos - 2) :
       dump[k].rev = Applied.rev => find_branch_by_path(dump[k].path) # <<b>>

\* C29: the commit that starts a branch made by a directory add on its
\* prefix with copy-from has as tree the subtree at the copy-from path in
\* the snapshot chosen for the copy-from revision: the same entries with
\* the same identifiers, whatever was committed to the source since.
C29_NewBranchStartsFromSnapshot ==
  \A run \in Runs : \A b \in branches_by_name :
    LET src == CopySource(run, Applied) IN
    (StartsBranch(run, b) /\ src # <<>> /\ is_tree(src[1])) =>
       /\ has_tree(run.branches[b].next_commit[1])
       /\ DOMAIN PendingTree(run, b).entries = DOMAIN src[1].entries
       /\ ObjectId(PendingTree(run, b)).ents = ObjectId(src[1]).ents

-----------------------------------------------------------------------------
(* Snapshots.                                                              *)

RECURSIVE Contents(_, _)
\* What lookups in the object id give: its name, and for a blob its
\* identifier, for a tree the contents of every entry.
Contents(objs, id) ==
  IF objs[id].type = "blob" THEN <<objs[id].name, objs[id].oid>>
  ELSE <<objs[id].name,
         [n \in DOMAIN objs[id].entries |-> Contents(objs, objs[id].entries[n])]>>

\* C30: a tree stored in rev_trees is not changed by a later update or
\* remove on the historical tree: every lookup in it gives what it gave
\* before the step.
C30_SnapshotsAreNotChanged ==
  [][\A k \in DOMAIN heap.rev_trees :
       Contents(heap'.objs, heap.rev_trees[k]) = Contents(heap.objs, heap.rev_trees[k])]_vars

\* A stored tree and the pending tree both have d/e, with different
\* contents, after an update below a subtree the two shared.
C30_Witness ==
  /\ profile = "heap"
  /\ heap.rev_trees # <<>>
  /\ heap.next # <<>>
  /\ heap.next[1] # 0
  /\ LET old == Tree_do_lookup(heap.objs, heap.rev_trees[1], <<"d", "e">>)
         new == Tree_do_lookup(heap.objs, heap.next[1], <<"d", "e">>)
     IN /\ old # 0 /\ new # 0 /\ old # new
        /\ Contents(heap.objs, old) # Contents(heap.objs, new)

-----------------------------------------------------------------------------
(* The pending commit of a branch.                                         *)

\* The two converters before and after a step.
RunSteps == { <<pre, pre'>>, <<skp, skp'>> }

Queued(run, b) == \E i \in DOMAIN run.commit_queue : run.commit_queue[i] = b

Pending(run, b) == run.branches[b].next_commit

\* Every pending commit is in the queue, once, and the queue holds nothing
\* else.
OnePendingCommit(run) ==
  /\ \A i, j \in DOMAIN run.commit_queue :
       run.commit_queue[i] = run.commit_queue[j] => i = j
  /\ \A b \in BranchNames : Pending(run, b) # <<>> <=> Queued(run, b)

\* The step belongs to the revision the converter is in already: no flush
\* lies between the requests of the step and the earlier ones.
SameRevision(old) ==
  /\ pc = "convert" /\ pc' = "convert"
  /\ Running(old) /\ Started(dump[pos])
  /\ dump[pos].rev = old.last_rev

\* A later request of the revision returns the commit that is pending.
SameCommit(old, new) ==
  \A b \in BranchNames :
     SameRevision(old) /\ Pending(old, b) # <<>> =>
       /\ Pending(new, b) # <<>>
       /\ Pending(new, b)[1].parent = Pending(old, b)[1].parent
       /\ Pending(new, b)[1].new_branch = Pending(old, b)[1].new_branch

\* The branch the node copies from.
SourceBranch(node) ==
  IF node.has_copy_from THEN find_branch_by_path(node.copy_from_path) ELSE <<>>

\* The step has made the pending commit of b.
Requested(old, new, b) ==
  /\ pc = "convert" /\ pc' = "convert"
  /\ Running(new)
  /\ Pending(new, b) # <<>>
  /\ ~(SameRevision(old) /\ Pending(old, b) # <<>>)

\* C31 as stated: within a revision a branch has one pending commit, queued
\* once; a later request returns it; and the commit the first request makes
\* is a child of the branch's previous commit, or has no parent when the
\* branch has none.
C31_OnePendingCommitFromPrevious ==
  [][\A s \in RunSteps :
       /\ Running(s[2]) => OnePendingCommit(s[2])
       /\ Running(s[2]) => SameCommit(s[1], s[2])
       /\ \A b \in BranchNames :
            Requested(s[1], s[2], b) =>
              Pending(s[2], b)[1].parent = s[2].branches[b].commit]_vars

\* C31: within a revision a branch has one pending commit, queued once; a
\* later request returns it; and the commit the first request makes is a
\* child of the branch's previous commit, or, when the branch has none, a
\* child of the commit of the branch the node copies from, flagged
\* new_branch, or a commit with no parent.
C31_OnePendingCommit ==
  [][\A s \in RunSteps :
       /\ Running(s[2]) => OnePendingCommit(s[2])
       /\ Running(s[2]) => SameCommit(s[1], s[2])
       /\ \A b \in BranchNames :
            Requested(s[1], s[2], b) =>
              LET nc   == Pending(s[2], b)[1]
                  from == SourceBranch(dump[pos])
              IN IF s[2].branches[b].commit # 0
                 THEN nc.parent = s[2].branches[b].commit /\ ~nc.new_branch
                 ELSE IF from # <<>> /\ b # HistoryName
                 THEN nc.parent = s[2].branches[from[1]].commit /\ nc.new_branch
                 ELSE nc.parent = 0 /\ ~nc.new_branch]_vars

\* A second node of a revision has gone to a branch whose commit was
\* pending, and a branch made by a copy is pending beside it.
C31_Witness ==
  /\ pc = "convert" /\ pos > 2
  /\ dump[pos - 1].rev = dump[pos - 2].rev
  /\ Running(skp)
  /\ Len(skp.commit_queue) = 3
  /\ Pending(skp, "v1") # <<>>
  /\ Pending(skp, "v1")[1].new_branch
  /\ Pending(skp, "v1")[1].parent # 0

-----------------------------------------------------------------------------
(* Commits that change nothing.                                            *)

\* The written commit i of the run has the tree of its parent.
SameTreeAsParent(run, i) ==
  /\ run.commits[i].parent # 0
  /\ ObjectId(run.commits[i].tree) = ObjectId(run.commits[run.commits[i].parent].tree)

\* C32: the flush writes no commit whose tree is that of its parent, unless
\* the commit is flagged new_branch; such a pending commit is dropped and
\* its branch stays where it was.
C32_UnchangedCommitIsNotWritten ==
  \A run \in Runs : \A i \in DOMAIN run.commits :
     SameTreeAsParent(run, i) => run.commits[i].new_branch

-----------------------------------------------------------------------------
(* The prune step.                                                         *)

\* The reservation (d, s) is passed at last_rev.
Passed(last_rev, v) == last_rev > v[1] /\ last_rev > v[2]

\* The step of the converter went through the revision boundary of
\* operator() and its free_past_trees; last_rev had the value it has in
\* old, and the reservations and the snapshots it leaves are those of new.
Pruned(old, new) ==
  /\ pc = "convert" /\ pc' = "convert"
  /\ Running(old) /\ Started(dump[pos])
  /\ dump[pos].rev # old.last_rev
  /\ Running(new)

\* C33 as stated: after the prune step no reservation of the set is
\* passed, wherever it sits.
C33_NoPassedReservationIsLeft ==
  [][Pruned(pre, pre') =>
       \A i \in DOMAIN pre'.copy_from : ~Passed(pre.last_rev, pre'.copy_from[i])]_vars

\* C33: after the prune step the reservation at the front of the set, the
\* one of the least source revision, is not passed, and the set is what
\* was behind the passed reservations of its front.
C33_FrontReservationIsNotPassed ==
  [][Pruned(pre, pre') =>
       /\ pre'.copy_from # <<>> => ~Passed(pre.last_rev, Head(pre'.copy_from))
       /\ \E n \in 0 .. Len(pre.copy_from) :
            /\ pre'.copy_from = SubSeq(pre.copy_from, n + 1, Len(pre.copy_from))
            /\ \A i \in 1 .. n : Passed(pre.last_rev, pre.copy_from[i])]_vars

\* The copies among the nodes read: one reservation each.
Reservations == { i \in DOMAIN dump : dump[i].has_copy_from }

\* The prune step has popped a reservation and left one behind.
C33_Witness ==
  /\ pc = "convert" /\ pos > 2
  /\ Running(pre)
  /\ pre.copy_from # <<>>
  /\ Len(pre.copy_from) < Cardinality(Reservations)
  /\ ~Passed(dump[pos - 2].rev, Head(pre.copy_from))


\* The converter as free_past_trees of the step finds it.
AtPrune(old) == BeforePrune([old EXCEPT !.rev = dump[pos].rev], opts.collect)

\* The source revisions of the reservations the prune step popped.
PoppedSources(mid, new) ==
  { mid.copy_from[i][2] : i \in 1 .. (Len(mid.copy_from) - Len(new.copy_from)) }

\* C34: when the prune step pops reservations and p is the largest source
\* revision popped, the cache keeps its entries from the greatest key <= p
\* on and loses those below it; when nothing is popped, or no key is <= p,
\* the cache is unchanged.
C34_PruneKeepsFromGreatestKeyAtMostPopped ==
  [][Pruned(pre, pre') =>
       LET mid    == AtPrune(pre)
           keys   == DOMAIN mid.rev_trees
           popped == PoppedSources(mid, pre')
           below  == IF popped = {} THEN {}
                     ELSE { k \in keys : k <= SetMax(popped) }
           kept   == IF below = {} THEN keys
                     ELSE { k \in keys : k >= SetMax(below) }
       IN /\ DOMAIN pre'.rev_trees = kept
          /\ \A k \in kept : pre'.rev_trees[k] = mid.rev_trees[k]]_vars

\* The snapshot of a revision that was flushed has left the cache, and a
\* snapshot is still there.
C34_Witness ==
  /\ pc = "convert"
  /\ Running(pre)
  /\ DOMAIN pre.rev_trees # {}
  /\ \E i \in DOMAIN pre.commits :
       /\ pre.commits[i].branch = HistoryName
       /\ pre.commits[i].flushed_at < pre.last_rev - 1
       /\ pre.commits[i].flushed_at \notin DOMAIN pre.rev_trees


\* The step is the final flush of a converter that is running.
Finished(old, new) ==
  /\ pc = "convert" /\ pc' = "done"
  /\ Running(old) /\ new.status = "done"

\* The revision of the reservation at the front has been processed.
FrontIsDue(c) ==
  /\ c.copy_from # <<>>
  /\ Head(c.copy_from)[1] <= c.last_rev

\* C35: the reservation (d, s) at the front of the set is popped at the
\* first revision boundary, or the final flush, that follows revision d.
C35_PoppedRightAfterItsRevision ==
  [][(Pruned(pre, pre') \/ Finished(pre, pre')) /\ FrontIsDue(pre) =>
       Len(pre'.copy_from) < Len(pre.copy_from)]_vars

-----------------------------------------------------------------------------
(* The historical tree.                                                    *)

\* The index of the last of the first k nodes of the dump that belongs to
\* a revision <= s, or 0.
LastOfRev(s, k) ==
  LET upto == { j \in 1 .. k : dump[j].rev <= s } IN
  IF upto = {} THEN 0 ELSE SetMax(upto)

\* The paths of the files of the source filesystem after the first k nodes
\* of the dump: those added, changed or copied, alone or with their
\* directory, and not deleted since, alone or with their directory.
RECURSIVE FilesAfter(_)
FilesAfter(k) ==
  IF k = 0 THEN {}
  ELSE LET node == dump[k] IN
       IF node.action = "delete"
       THEN { p \in FilesAfter(k - 1) : ~IsPrefix(node.path, p) }
       ELSE IF node.kind = "file" /\ node.action \in {"add", "change"}
       THEN FilesAfter(k - 1) \cup {node.path}
       ELSE IF node.kind = "dir" /\ node.action = "add" /\ node.has_copy_from
       THEN FilesAfter(k - 1) \cup
            { node.path \o SubSeq(p, Len(node.copy_from_path) + 1, Len(p)) :
                p \in { q \in FilesAfter(LastOfRev(node.copy_from_rev, k - 1)) :
                          IsPrefix(node.copy_from_path, q) } }
       ELSE FilesAfter(k - 1)

\* The tree of the pending commit of the flat-history branch, or the tree
\* of the commit of the branch when none is pending.
HistoricalTree(run) ==
  LET h == run.branches[HistoryName] IN
  IF h.next_commit # <<>>
  THEN IF has_tree(h.next_commit[1]) THEN h.next_commit[1].tree[1]
       ELSE create_tree("")
  ELSE IF h.commit # 0 THEN run.commits[h.commit].tree
  ELSE create_tree("")

\* The first k nodes are nodes Subversion writes: a directory is added
\* where nothing is (it is deleted first, or replaced, otherwise).
AddsWhereNothingIs(k) ==
  \A j \in 1 .. k :
     dump[j].kind = "dir" /\ dump[j].action = "add" =>
       \A p \in FilesAfter(j - 1) : ~IsPrefix(dump[j].path, p)

-----------------------------------------------------------------------------
(* Empty subtrees.                                                         *)

\* No Tree below the Tree id is empty.
RECURSIVE NoEmptyBelow(_, _)
NoEmptyBelow(objs, id) ==
  \A n \in DOMAIN objs[id].entries :
     LET o == objs[id].entries[n] IN
     objs[o].type = "tree" =>
       DOMAIN objs[o].entries # {} /\ NoEmptyBelow(objs, o)

\* The trees in use: of the pending commit, of the commit of the branch,
\* and of rev_trees.
HeapRoots ==
  (IF heap.next # <<>> /\ heap.next # <<0>> THEN {heap.next[1]} ELSE {})
  \cup (IF heap.commit # 0 THEN {heap.commit} ELSE {})
  \cup { heap.rev_trees[k] : k \in DOMAIN heap.rev_trees }

\* C37: after any sequence of updates and removes no subtree below the
\* root of a tree is empty: a remove that empties a subtree takes it out
\* of its parent, and so on upward.
C37_NoEmptySubtree ==
  profile = "heap" => \A root \in HeapRoots : NoEmptyBelow(heap.objs, root)

\* A remove has emptied the subtree e of d and, with it, d: both are gone
\* from the tree of the pending commit, which keeps its other file.
C37_Witness ==
  /\ profile = "heap"
  /\ heap.next # <<>> /\ heap.next # <<0>>
  /\ DOMAIN heap.objs[heap.next[1]].entries = {"a"}
  /\ \E i \in DOMAIN heap.objs :
       /\ heap.objs[i].type = "tree" /\ heap.objs[i].name = "e"
       /\ DOMAIN heap.objs[i].entries = {}
  /\ \E i \in DOMAIN heap.objs :
       /\ heap.objs[i].type = "tree" /\ heap.objs[i].name = "d"
       /\ DOMAIN heap.objs[i].entries = {}

-----------------------------------------------------------------------------
(* The historical tree and the submodules.                                 *)

\* Where the node goes in a Submodule: <<>>, or <<[path, module]>>.
FanoutOf(node) ==
  LET found == find_branch_by_path(node.path) IN
  IF found = <<>> THEN <<>>
  ELSE find_submodule(ld, subpath_of(node.path, found[1]))

\* The step hands the converter a node that it fans out to a Submodule.
FansOut ==
  /\ profile = "fanout"
  /\ pc = "convert" /\ pc' = "convert"
  /\ Running(skp) /\ Running(skp')
  /\ WritesFile(dump[pos]) \/ dump[pos].action = "delete"
  /\ FanoutOf(dump[pos]) # <<>>

\* C38: a node that is fanned out to a Submodule reaches the historical
\* tree of the parent at its source path, and the historical tree neither
\* gains nor loses an entry at the path the node has in the Submodule.
C38_FanoutLeavesHistoricalTreeAlone ==
  [][FansOut =>
       LET node == dump[pos]
           dest == FanoutOf(node)[1].path
       IN /\ WritesFile(node) =>
               lookup(HistoricalTree(skp'), node.path)
                 = <<create_blob(filename(node.path), node.text)>>
          /\ node.action = "delete" =>
               lookup(HistoricalTree(skp'), node.path) = <<>>
          /\ lookup(HistoricalTree(skp'), dest)
               = lookup(HistoricalTree(skp), dest)]_vars

-----------------------------------------------------------------------------
(* The properties of a revision.                                           *)

\* The record of revision r of the dump.
RevisionRecord(r) ==
  rd.records[CHOOSE i \in DOMAIN rd.records :
               IsRevision(rd.records[i]) /\ RevOf(rd.records, i) = r]

\* C39: the author, date and log delivered with a node are those of the
\* node's own revision: the author is empty when the revision carries no
\* svn:author and the log is absent when it carries no svn:log.
C39_MetadataIsOfOwnRevision ==
  \A k \in 1 .. Len(rd.yielded[1]) :
     LET d    == rd.yielded[1][k]
         kind == RevisionRecord(d.rev)
     IN /\ d.author = IF kind = "revision_anon" THEN "" ELSE "alice"
        /\ d.log = IF kind = "revision_nolog" THEN <<>> ELSE <<d.rev>>
        /\ d.date = d.rev

=============================================================================
